---- MODULE Spec2Model ----
(***************************************************************************)
(* State-machine model of the follow-me control core of sdronep:           *)
(*   - the GPS source arbiter (gps_udp_receiver, POST /location),          *)
(*   - the vehicle-link accessor (get_drone_vehicle, connect_vehicle),     *)
(*   - the arm/takeoff sequences (simple_takeoff_only, arm_and_takeoff),   *)
(*   - the follow loop (drone_follow_loop) and the command handlers.       *)
(* Every thread of the program is a process with its own program counter;  *)
(* one action is one step between two accesses of shared state, so that    *)
(* the interleavings of the unsynchronised threads are those of the code.  *)
(*                                                                         *)
(* Time.  The code only ever uses differences time.time() - t0.  The model *)
(* keeps each such difference as a saturating counter in clock ticks       *)
(* (TicksPerSecond per second) which the Tick action advances: phone_age   *)
(* is time.time() - last_phone_update, elapsed is time.time() - start_time *)
(* of the waiting loop in progress, slept is the time spent in the current *)
(* time.sleep().  A sleep lasts at least its duration (a thread may be     *)
(* scheduled late).                                                        *)
(*                                                                         *)
(* Locals.  A local that is dead (its function has returned, or the loop   *)
(* assigns it before the next read) is reset to its initial value.         *)
(*                                                                         *)
(* Coordinates are integers in units of 1/111000 degree, so that the       *)
(* code's "ground_distance / 111000" degrees is ground_distance units.     *)
(* Altitudes are integers in centimetres.                                  *)
(***************************************************************************)
EXTENDS Integers, Sequences, FiniteSets, TLC

(***************************************************************************)
(* Bounds of the model                                                     *)
(***************************************************************************)
\* handles connect() can hand out in one run
MaxLinks == 2
\* seconds after which the saturating age counter stops counting
AgeCapSeconds == 70
\* the arbiter compares ages with 10 s and 30 s (60 s in GET /location): the
\* clock of the arbiter's specification advances in steps of this many seconds
GpsTickSeconds == 10
\* the follow loop sleeps 3 s and 5 s, the telemetry poller 2 s: the clock of
\* their specifications advances in steps of this many seconds
FollowTickSeconds == 5
\* the longest coordinate field given to nmea_to_decimal
MaxCoordLen == 6

(***************************************************************************)
(* Program constants                                                       *)
(***************************************************************************)
\* Python's None (for a coordinate or a reading that is absent)
None == -1000000000
\* app.config['drone_vehicle'] = None / vehicle = None
NoLink == 0
\* resolution of the model clock: the shortest sleep is time.sleep(0.5)
TicksPerSecond == 2
\* staleness window of the phone fix, seconds
PhoneStaleSeconds == 30
\* len(udp_attempts)
NumUdpAttempts == 7
\* the wait bounds of simple_takeoff_only, seconds
armable_timeout == 30
mode_timeout == 10
arm_timeout == 15
takeoff_timeout == 60
\* takeoff_altitude = 1.5 metres, in centimetres
takeoff_altitude == 150

Secs(s) == s * TicksPerSecond
AgeCap == Secs(AgeCapSeconds)

Threads == {"udp", "telem", "follow", "cmd"}
Handles == 1..MaxLinks

(***************************************************************************)
(* Input domains                                                           *)
(***************************************************************************)
Sentinel == <<0, 0>>
PhoneFixA == <<5328000, 1276500>>
PhoneFixB == <<5328011, 1276500>>
ManualFix == <<4440000, 222000>>
\* the vehicle's own position: 10 m south of ManualFix
LaptopFix == <<4439990, 222000>>
\* latitude 95 degrees: outside [-90, 90]
OutOfRangeFix == <<10545000, 222000>>

\* a datagram, by what the receiver's tests find in it: the '$' prefix, the
\* result of validate_nmea_checksum, the sentence type, the fix quality of a
\* GGA, the status of an RMC, whether each coordinate field is empty, and
\* what nmea_to_decimal returns for it
GoodGGA ==
  [dollar |-> TRUE, sum_ok |-> TRUE, type |-> "GGA", quality |-> 1, status |-> "A",
   lat_empty |-> FALSE, lon_empty |-> FALSE, lat |-> PhoneFixA[1], lon |-> PhoneFixA[2]]
GoodRMC == [GoodGGA EXCEPT !.type = "RMC", !.lat = PhoneFixB[1], !.lon = PhoneFixB[2]]

Datagrams ==
  { [GoodGGA EXCEPT !.dollar = FALSE],
    [GoodGGA EXCEPT !.sum_ok = FALSE],
    [GoodGGA EXCEPT !.type = "OTHER"],
    [GoodGGA EXCEPT !.quality = 0],
    [GoodRMC EXCEPT !.status = "V"],
    [GoodGGA EXCEPT !.lat_empty = TRUE, !.lat = None],
    [GoodRMC EXCEPT !.lon_empty = TRUE, !.lon = None],
    [GoodGGA EXCEPT !.lat = None, !.lon = None],
    [GoodRMC EXCEPT !.lon = None],
    GoodGGA,
    GoodRMC,
    [GoodGGA EXCEPT !.lat = 0, !.lon = 0] }

\* JSON bodies of POST /location: data.get("latitude"), data.get("lat"),
\* data.get("longitude"), data.get("lon"); nodata is an empty or missing body
LocationRequests ==
  { [nodata |-> TRUE,  latitude |-> None, lat |-> None, longitude |-> None, lon |-> None],
    [nodata |-> FALSE, latitude |-> ManualFix[1], lat |-> None, longitude |-> ManualFix[2], lon |-> None],
    [nodata |-> FALSE, latitude |-> None, lat |-> ManualFix[1], longitude |-> None, lon |-> None],
    [nodata |-> FALSE, latitude |-> 0, lat |-> None, longitude |-> 0, lon |-> None],
    [nodata |-> FALSE, latitude |-> OutOfRangeFix[1], lat |-> None, longitude |-> OutOfRangeFix[2], lon |-> None] }

\* what the autopilot reports as its global_frame position: (lat, lon), either None without a fix
VehiclePositions == { <<None, None>>, LaptopFix }

\* what the autopilot reports through the link's attributes: is_armable,
\* mode.name, armed and location.global_relative_frame.alt (centimetres)
Modes == {"STABILIZE", "GUIDED"}
AltReadings == {None, 142, 475}
\* an update of one attribute: <<attribute, value>>
FcUpdates ==
  ({"is_armable", "armed"} \X BOOLEAN) \cup ({"mode"} \X Modes) \cup ({"alt"} \X AltReadings)
\* the mode changes of a vehicle that holds its altitude
FlightUpdates == {"mode"} \X Modes

\* 'elevation' and 'distance' of a POST /drone/follow/start body, metres
Elevations == {4, 5, 101}
Distances == {4, 5, 51}

VARIABLES
  \* app.config of sdronep/app.py
  current_location, location_source, phone_age,
  drone_vehicle,
  tracking_active, follow_mode, target_elevation, target_distance,
  drone_location, drone_metrics, auto_tracking_enabled, gimbal_tilt_angle,
  \* the attributes of the dronekit Vehicle, as last reported by the autopilot
  fc,
  \* what has been sent out: the commands of the arm/takeoff sequence in
  \* progress, the target of the last simple_goto, the last angle given to
  \* set_gimbal_angle
  issued, last_goto, gimbal_out,
  \* the HTTP command handler thread, the follow loop, the telemetry poller:
  \* program counter and locals
  cmd, fl, tel,
  \* sdronep/telemetry.py
  vehicle,
  \* the links connect() has opened: "unused", "live", "closed" (vehicle.close()) or "lost"
  links,
  \* gps_udp_receiver thread
  udp_pc, udp_fix, udp_laptop,
  \* POST /location handler thread
  loc_pc, loc_req, loc_phone_timeout,
  \* get_drone_vehicle / connect_vehicle / get_current_location in progress, per thread
  cpc, cvia, cidx, cret,
  \* validate_nmea_checksum: the sentence it was last given, as the sequence
  \* of its character codes, and what it returned
  sentence, checksum_ok,
  \* nmea_to_decimal: the coordinate field and the direction it is given, as
  \* character codes and a letter, whether it has returned, and what it
  \* returned, in units of 1/600000 degree
  coord_str, direction, decoded, decimal,
  \* calculate_distance and calculate_bearing: the two points they are
  \* given, whether they have returned, and what they returned
  geo,
  \* the body of the last response of GET /status, GET /location or
  \* GET /drone/metrics
  response

gpsVars == <<current_location, location_source, phone_age>>
udpVars == <<udp_pc, udp_fix, udp_laptop>>
locVars == <<loc_pc, loc_req, loc_phone_timeout>>
linkVars == <<drone_vehicle, vehicle, links>>
callVars == <<cpc, cvia, cidx, cret>>
cfgVars == <<tracking_active, follow_mode, target_elevation, target_distance, auto_tracking_enabled>>
droneVars == <<drone_location, drone_metrics>>
outVars == <<issued, last_goto, gimbal_tilt_angle, gimbal_out>>
nmeaVars == <<sentence, checksum_ok, coord_str, direction, decoded, decimal, geo>>
readVars == <<response>>
vars == <<gpsVars, udpVars, locVars, linkVars, callVars, cfgVars, droneVars, fc, outVars, cmd, fl, tel, nmeaVars, readVars>>

\* what the steps of each part of the program leave alone
flightFrame == <<cfgVars, droneVars, fc, outVars, cmd, fl, tel, nmeaVars, readVars>>
connFrame == <<gpsVars, udpVars, locVars, flightFrame>>
udpFrame == <<locVars, flightFrame>>
locFrame == <<udpVars, linkVars, callVars, flightFrame>>
tickFrame == <<current_location, location_source, udpVars, linkVars, callVars, cfgVars, droneVars, fc, outVars, nmeaVars, readVars>>
cmdFrame == <<gpsVars, udpVars, locVars, linkVars, droneVars, fc, fl, tel, last_goto, gimbal_tilt_angle, gimbal_out, nmeaVars, readVars>>
flFrame == <<gpsVars, udpVars, locVars, linkVars, cfgVars, droneVars, fc, issued, cmd, tel, nmeaVars, readVars>>
telFrame == <<gpsVars, udpVars, locVars, linkVars, cfgVars, fc, outVars, cmd, fl, nmeaVars, readVars>>
envFrame == <<gpsVars, udpVars, locVars, callVars, cfgVars, droneVars, outVars, cmd, fl, tel, nmeaVars, readVars>>

Min(a, b) == IF a < b THEN a ELSE b
Max(a, b) == IF a > b THEN a ELSE b
Abs(a) == IF a < 0 THEN 0 - a ELSE a
Sgn(a) == IF a < 0 THEN 0 - 1 ELSE IF a > 0 THEN 1 ELSE 0

(***************************************************************************)
(* Vehicle link accessor: get_drone_vehicle (app.py) and connect_vehicle,  *)
(* get_current_location (telemetry.py).  A thread calls by setting its cpc *)
(* and continues when cpc is "ret", with the returned handle in cret.      *)
(* Neither function takes a lock.  The heartbeat wait of connect_vehicle   *)
(* (up to 30 s) is a single step whose outcome the link decides.           *)
(***************************************************************************)
CanOpen == \E h \in Handles : links[h] = "unused"
NewHandle == CHOOSE h \in Handles : links[h] = "unused" /\ \A g \in Handles : links[g] = "unused" => h <= g
IsLive(h) == h # NoLink /\ links[h] = "live"
LiveLinks == {h \in Handles : links[h] = "live"}

\* the caller's first step into get_drone_vehicle() ("gdv") or get_current_location() ("gcl")
CallGetDroneVehicle(t) ==
  /\ cpc' = [cpc EXCEPT ![t] = "gdv_check"]
  /\ cvia' = [cvia EXCEPT ![t] = "gdv"]
  /\ UNCHANGED <<cidx, cret>>

CallGetCurrentLocation(t) ==
  /\ cpc' = [cpc EXCEPT ![t] = "cv_check"]
  /\ cvia' = [cvia EXCEPT ![t] = "gcl"]
  /\ UNCHANGED <<cidx, cret>>

\* the caller's step that takes the returned value
Returned(t) == cpc[t] = "ret"
TakeReturn(t) ==
  /\ cpc' = [cpc EXCEPT ![t] = "none"]
  /\ cidx' = [cidx EXCEPT ![t] = 0]
  /\ cret' = [cret EXCEPT ![t] = NoLink]
  /\ cvia' = cvia

\* where connect_vehicle returns to
AfterConnect(t) == IF cvia[t] = "gdv" THEN "gdv_store" ELSE "ret"

\* the attempt after a failed one: the next connection string, then the serial port
NextAttempt(t) ==
  IF cidx[t] < NumUdpAttempts
    THEN /\ cidx' = [cidx EXCEPT ![t] = cidx[t] + 1]
         /\ cpc' = [cpc EXCEPT ![t] = "cv_try"]
    ELSE /\ cidx' = cidx
         /\ cpc' = [cpc EXCEPT ![t] = "cv_serial"]

\* app.py 1082: if app.config['drone_vehicle'] is None
GdvCheck(t) ==
  /\ cpc[t] = "gdv_check"
  /\ cpc' = [cpc EXCEPT ![t] = IF drone_vehicle = NoLink THEN "cv_check" ELSE "gdv_return"]
  /\ UNCHANGED <<cvia, cidx, cret, linkVars>>
  /\ UNCHANGED connFrame

\* app.py 1085: app.config['drone_vehicle'] = connect_vehicle()
GdvStore(t) ==
  /\ cpc[t] = "gdv_store"
  /\ drone_vehicle' = cret[t]
  /\ cpc' = [cpc EXCEPT ![t] = "gdv_return"]
  /\ UNCHANGED <<cvia, cidx, cret, vehicle, links>>
  /\ UNCHANGED connFrame

\* app.py 1090: return app.config['drone_vehicle']
GdvReturn(t) ==
  /\ cpc[t] = "gdv_return"
  /\ cret' = [cret EXCEPT ![t] = drone_vehicle]
  /\ cpc' = [cpc EXCEPT ![t] = "ret"]
  /\ UNCHANGED <<cvia, cidx, linkVars>>
  /\ UNCHANGED connFrame

\* telemetry.py 21: if vehicle is None
CvCheck(t) ==
  /\ cpc[t] = "cv_check"
  /\ cpc' = [cpc EXCEPT ![t] = IF vehicle = NoLink THEN "cv_try" ELSE "cv_return"]
  /\ cidx' = [cidx EXCEPT ![t] = IF vehicle = NoLink THEN 1 ELSE cidx[t]]
  /\ UNCHANGED <<cvia, cret, linkVars>>
  /\ UNCHANGED connFrame

\* telemetry.py 48, 67-69: connect(connection_string) raises
CvTryFail(t) ==
  /\ cpc[t] = "cv_try"
  /\ NextAttempt(t)
  /\ UNCHANGED <<cvia, cret, linkVars>>
  /\ UNCHANGED connFrame

\* telemetry.py 48: vehicle = connect(connection_string, ...)
CvTryOpen(t) ==
  /\ cpc[t] = "cv_try"
  /\ CanOpen
  /\ vehicle' = NewHandle
  /\ links' = [links EXCEPT ![NewHandle] = "live"]
  /\ cpc' = [cpc EXCEPT ![t] = "cv_heartbeat"]
  /\ UNCHANGED <<cvia, cidx, cret, drone_vehicle>>
  /\ UNCHANGED connFrame

\* telemetry.py 56-60: a heartbeat arrives on the link the global names
CvHeartbeat(t) ==
  /\ cpc[t] = "cv_heartbeat"
  /\ IsLive(vehicle)
  /\ cpc' = [cpc EXCEPT ![t] = "cv_return"]
  /\ UNCHANGED <<cvia, cidx, cret, linkVars>>
  /\ UNCHANGED connFrame

\* telemetry.py 63-69: no heartbeat in 30 s: vehicle.close(), raise, next attempt
CvHeartbeatTimeout(t) ==
  /\ cpc[t] = "cv_heartbeat"
  /\ vehicle # NoLink
  /\ links' = [links EXCEPT ![vehicle] = "closed"]
  /\ NextAttempt(t)
  /\ UNCHANGED <<cvia, cret, drone_vehicle, vehicle>>
  /\ UNCHANGED connFrame

\* telemetry.py 80, 83-86: connect('COM3') raises: return None
CvSerialFail(t) ==
  /\ cpc[t] = "cv_serial"
  /\ cret' = [cret EXCEPT ![t] = NoLink]
  /\ cpc' = [cpc EXCEPT ![t] = AfterConnect(t)]
  /\ UNCHANGED <<cvia, cidx, linkVars>>
  /\ UNCHANGED connFrame

\* telemetry.py 80: vehicle = connect('COM3', wait_ready=True, ...)
CvSerialOpen(t) ==
  /\ cpc[t] = "cv_serial"
  /\ CanOpen
  /\ vehicle' = NewHandle
  /\ links' = [links EXCEPT ![NewHandle] = "live"]
  /\ cpc' = [cpc EXCEPT ![t] = "cv_return"]
  /\ UNCHANGED <<cvia, cidx, cret, drone_vehicle>>
  /\ UNCHANGED connFrame

\* telemetry.py 60, 82, 88: return vehicle
CvReturn(t) ==
  /\ cpc[t] = "cv_return"
  /\ cret' = [cret EXCEPT ![t] = vehicle]
  /\ cpc' = [cpc EXCEPT ![t] = AfterConnect(t)]
  /\ UNCHANGED <<cvia, cidx, linkVars>>
  /\ UNCHANGED connFrame

\* the steps of connect_vehicle for thread t
ConnectVehicle(t) ==
  \/ CvCheck(t)
  \/ CvTryFail(t)
  \/ CvTryOpen(t)
  \/ CvHeartbeat(t)
  \/ CvHeartbeatTimeout(t)
  \/ CvSerialFail(t)
  \/ CvSerialOpen(t)
  \/ CvReturn(t)

\* the steps of get_drone_vehicle for thread t
GetDroneVehicle(t) ==
  \/ GdvCheck(t)
  \/ GdvStore(t)
  \/ GdvReturn(t)
  \/ ConnectVehicle(t)

\* telemetry.py 252-260: what get_current_location returns for handle v when
\* the autopilot reports position pos
GetCurrentLocation(v, pos) ==
  IF v = NoLink THEN <<0, 0>>
  ELSE << IF pos[1] # None THEN pos[1] ELSE 0, IF pos[2] # None THEN pos[2] ELSE 0 >>

(***************************************************************************)
(* GPS source arbiter: the gps_udp_receiver thread                         *)
(***************************************************************************)
\* a parser of GGA sentences that does not look at the fix quality
parse_nmea_gga_any_quality(d) ==
  IF d.lat_empty \/ d.lon_empty THEN <<None, None>> ELSE <<d.lat, d.lon>>

\* app.py 345-366: parse_nmea_gga: no fix when a coordinate field is empty or
\* the quality is 0, else what nmea_to_decimal returns for each field
parse_nmea_gga(d) ==
  IF d.lat_empty \/ d.lon_empty \/ d.quality = 0 THEN <<None, None>> ELSE <<d.lat, d.lon>>

\* app.py 368-389: parse_nmea_rmc: no fix when the status is not 'A' or a
\* coordinate field is empty
parse_nmea_rmc(d) ==
  IF d.status # "A" \/ d.lat_empty \/ d.lon_empty THEN <<None, None>> ELSE <<d.lat, d.lon>>

\* app.py 419-425: lat, lon = None, None; the parser of the sentence type
Parsed(d) ==
  CASE d.type = "GGA" -> parse_nmea_gga(d)
    [] d.type = "RMC" -> parse_nmea_rmc(d)
    [] OTHER          -> <<None, None>>

\* app.py 414-428: the datagram starts with '$', passes the checksum, and its
\* parser returns two coordinates
ValidPhoneFix(d) ==
  /\ d.dollar
  /\ d.sum_ok
  /\ Parsed(d)[1] # None
  /\ Parsed(d)[2] # None

\* a staleness test that takes 10 s of silence for a timeout
PhoneTimedOutEarly(age) == age > Secs(10)

\* app.py 439: if phone_timeout > 30
PhoneTimedOut(age) == age > Secs(PhoneStaleSeconds)

\* app.py 617: ... and phone_timeout < 30
PhoneActive(age) == age < Secs(PhoneStaleSeconds)

\* app.py 412-429: sock.recvfrom returns a datagram
UdpRecv(d) ==
  /\ udp_pc = "recv"
  /\ IF ValidPhoneFix(d)
       THEN /\ udp_fix' = Parsed(d)
            /\ udp_pc' = "set_loc"
       ELSE UNCHANGED <<udp_fix, udp_pc>>
  /\ UNCHANGED <<udp_laptop, gpsVars, linkVars, callVars>>
  /\ UNCHANGED udpFrame

\* app.py 430: app.config['current_location'] = (lat, lon)
UdpSetLoc ==
  /\ udp_pc = "set_loc"
  /\ current_location' = udp_fix
  /\ udp_pc' = "set_src"
  /\ UNCHANGED <<location_source, phone_age, udp_fix, udp_laptop, linkVars, callVars>>
  /\ UNCHANGED udpFrame

\* app.py 431: app.config['location_source'] = 'phone'
UdpSetSrc ==
  /\ udp_pc = "set_src"
  /\ location_source' = "phone"
  /\ udp_pc' = "set_time"
  /\ UNCHANGED <<current_location, phone_age, udp_fix, udp_laptop, linkVars, callVars>>
  /\ UNCHANGED udpFrame

\* app.py 432: app.config['last_phone_update'] = time.time()
UdpSetTime ==
  /\ udp_pc = "set_time"
  /\ phone_age' = 0
  /\ udp_pc' = "recv"
  /\ udp_fix' = Sentinel
  /\ UNCHANGED <<current_location, location_source, udp_laptop, linkVars, callVars>>
  /\ UNCHANGED udpFrame

\* a listener that looks for a fallback whatever the source
FallsBackFromAnySource(source) == TRUE

\* app.py 437: if app.config['location_source'] == 'phone'
FallsBack(source) == source = "phone"

\* app.py 435-437: socket.timeout; if app.config['location_source'] == 'phone'
UdpTimeout ==
  /\ udp_pc = "recv"
  /\ udp_pc' = IF FallsBack(location_source) THEN "fb_age" ELSE "recv"
  /\ UNCHANGED <<udp_fix, udp_laptop, gpsVars, linkVars, callVars>>
  /\ UNCHANGED udpFrame

\* app.py 438-443: phone_timeout = time.time() - last_phone_update; if it is
\* over 30 s, call get_current_location()
UdpFallbackAge ==
  /\ udp_pc = "fb_age"
  /\ IF PhoneTimedOut(phone_age)
       THEN /\ udp_pc' = "fb_poll"
            /\ CallGetCurrentLocation("udp")
       ELSE /\ udp_pc' = "recv"
            /\ UNCHANGED callVars
  /\ UNCHANGED <<udp_fix, udp_laptop, gpsVars, linkVars>>
  /\ UNCHANGED udpFrame

\* app.py 443-444, telemetry.py 252-260: get_current_location() returns;
\* if laptop_lat != 0 or laptop_lon != 0
UdpFallbackPolled(pos) ==
  /\ udp_pc = "fb_poll"
  /\ Returned("udp")
  /\ TakeReturn("udp")
  /\ LET got == GetCurrentLocation(cret["udp"], pos) IN
       IF got[1] # 0 \/ got[2] # 0
         THEN /\ udp_laptop' = got
              /\ udp_pc' = "fb_set_loc"
         ELSE /\ udp_laptop' = udp_laptop
              /\ udp_pc' = "recv"
  /\ UNCHANGED <<udp_fix, gpsVars, linkVars>>
  /\ UNCHANGED udpFrame

\* app.py 445: app.config['current_location'] = (laptop_lat, laptop_lon)
UdpFallbackSetLoc ==
  /\ udp_pc = "fb_set_loc"
  /\ current_location' = udp_laptop
  /\ udp_pc' = "fb_set_src"
  /\ UNCHANGED <<location_source, phone_age, udp_fix, udp_laptop, linkVars, callVars>>
  /\ UNCHANGED udpFrame

\* app.py 446: app.config['location_source'] = 'laptop'
UdpFallbackSetSrc ==
  /\ udp_pc = "fb_set_src"
  /\ location_source' = "laptop"
  /\ udp_pc' = "recv"
  /\ udp_laptop' = Sentinel
  /\ UNCHANGED <<current_location, phone_age, udp_fix, linkVars, callVars>>
  /\ UNCHANGED udpFrame

\* the gps_udp_receiver thread
GpsUdpReceiver ==
  \/ \E d \in Datagrams : UdpRecv(d)
  \/ UdpSetLoc
  \/ UdpSetSrc
  \/ UdpSetTime
  \/ UdpTimeout
  \/ UdpFallbackAge
  \/ ConnectVehicle("udp")
  \/ \E pos \in VehiclePositions : UdpFallbackPolled(pos)
  \/ UdpFallbackSetLoc
  \/ UdpFallbackSetSrc

(***************************************************************************)
(* GPS source arbiter: POST /location (handle_location)                    *)
(***************************************************************************)
\* Python's "a or b" on two optional numbers
PyOr(a, b) == IF a # None /\ a # 0 THEN a ELSE b

\* app.py 602-613: the body is read; 400 without data or without a coordinate
LocPost(r) ==
  /\ loc_pc = "idle"
  /\ LET lat == PyOr(r.latitude, r.lat)
         lon == PyOr(r.longitude, r.lon) IN
       IF r.nodata \/ lat = None \/ lon = None
         THEN UNCHANGED <<loc_pc, loc_req>>
         ELSE /\ loc_req' = <<lat, lon>>
              /\ loc_pc' = "read_time"
  /\ UNCHANGED <<loc_phone_timeout, gpsVars>>
  /\ UNCHANGED locFrame

\* app.py 616: phone_timeout = time.time() - app.config.get('last_phone_update', 0)
LocReadTime ==
  /\ loc_pc = "read_time"
  /\ loc_phone_timeout' = phone_age
  /\ loc_pc' = "check"
  /\ UNCHANGED <<loc_req, gpsVars>>
  /\ UNCHANGED locFrame

\* app.py 617-619: if location_source == 'phone' and phone_timeout < 30: ignored
LocCheck ==
  /\ loc_pc = "check"
  /\ IF location_source = "phone" /\ PhoneActive(loc_phone_timeout)
       THEN /\ loc_pc' = "idle"
            /\ loc_req' = Sentinel
       ELSE /\ loc_pc' = "set_loc"
            /\ loc_req' = loc_req
  /\ loc_phone_timeout' = 0
  /\ UNCHANGED gpsVars
  /\ UNCHANGED locFrame

\* app.py 622: app.config['current_location'] = (lat, lon)
LocSetLoc ==
  /\ loc_pc = "set_loc"
  /\ current_location' = loc_req
  /\ loc_pc' = "set_src"
  /\ UNCHANGED <<loc_req, loc_phone_timeout, location_source, phone_age>>
  /\ UNCHANGED locFrame

\* app.py 623: app.config['location_source'] = 'http'
LocSetSrc ==
  /\ loc_pc = "set_src"
  /\ location_source' = "http"
  /\ loc_pc' = "idle"
  /\ loc_req' = Sentinel
  /\ UNCHANGED <<loc_phone_timeout, current_location, phone_age>>
  /\ UNCHANGED locFrame

\* the POST /location handler thread
HandleLocation ==
  \/ \E r \in LocationRequests : LocPost(r)
  \/ LocReadTime
  \/ LocCheck
  \/ LocSetLoc
  \/ LocSetSrc

(***************************************************************************)
(* Pure functions of the flight logic                                      *)
(***************************************************************************)
\* Python's "x or 0" on an optional number
PyOr0(x) == IF x = None THEN 0 ELSE x

\* a validation that has lost its lower bound
ValidElevationNoFloor(e) == ~(e > 100)

\* app.py 902: if elevation < 5 or elevation > 100: rejected
ValidElevation(e) == ~(e < 5 \/ e > 100)

\* app.py 905: if distance < 5 or distance > 50: rejected
ValidDistance(d) == ~(d < 5 \/ d > 50)

\* an altitude test satisfied with 90 % of the target
ReachedAt90(current_altitude, target) == current_altitude * 100 >= target * 90

\* app.py 1136, 1290: current_altitude >= target * 0.95, both in centimetres
Reached(current_altitude, target) == current_altitude * 100 >= target * 95

\* app.py 1092-1104: the target is ground_distance metres south of the user
calculate_target_position(user_lat, user_lon, elevation_above_user, ground_distance) ==
  <<user_lat - ground_distance, user_lon>>

\* a test of the location that takes the (0,0) sentinel for a location
HasLocationAlways(user_location) == TRUE

\* app.py 1329: if user_location != (0, 0)
HasLocation(user_location) == user_location # Sentinel

\* app.py 781, 859: "user_has_location": user_location != (0, 0)
user_has_location == current_location # Sentinel

\* the element of a one-element set; { f(v) : v \in {e} } computes e once,
\* whatever the number of uses of v in f
The(S) == CHOOSE v \in S : TRUE

RECURSIVE IsqrtIn(_, _, _)
\* the largest r in lo..hi with r * r <= n
IsqrtIn(n, lo, hi) ==
  IF lo = hi THEN lo
  ELSE The({ IF mid * mid <= n THEN IsqrtIn(n, mid, hi) ELSE IsqrtIn(n, lo, mid - 1) :
             mid \in {(lo + hi + 1) \div 2} })

\* math.sqrt, rounded down
Isqrt(n) == The({ IsqrtIn(v, 0, 46340) : v \in {n} })

\* math.sqrt(a**2 + b**2) for a, b >= 0: to the unit when both are at most
\* 30000, and to 1110 units (0.01 degree) beyond
Hypot(a, b) ==
  IF a <= 30000 /\ b <= 30000 THEN Isqrt(a * a + b * b)
  ELSE 1110 * Isqrt((a \div 1110) * (a \div 1110) + (b \div 1110) * (b \div 1110))

\* 1000 * tan(5 i degrees) for i = 1..17
Tan1000 == <<87, 176, 268, 364, 466, 577, 700, 839, 1000, 1192, 1428, 1732, 2145, 2747, 3732, 5671, 11430>>

\* math.atan of t / 1000 for t >= 0, in degrees rounded down to a multiple of 5
AtanDeg(t) == The({ 5 * Cardinality({i \in 1..17 : Tan1000[i] <= v}) : v \in {t} })

\* 1000 * n / d rounded down for n >= 0, d > 0, and 12000 for every ratio of 12 or more
Ratio1000(n, d) ==
  LET q == n \div d IN
    IF q >= 12 THEN 12000
    ELSE IF d <= 2000000 THEN q * 1000 + ((n % d) * 1000) \div d
    ELSE q * 1000 + (n % d) \div (d \div 1000)

\* gimbal_control.py 41-47: (180 / 3.14159) * atan2(elevation, x), where x is
\* the distance between the two positions in degrees of coordinate;
\* elevation > 0.  The result is the angle rounded down to a multiple of 5
\* degrees (90 when x is 0); it is not clamped.
get_angle(elevation, pos_drone, pos_user) ==
  LET dx == Abs(pos_user[1] - pos_drone[1])
      dy == Abs(pos_user[2] - pos_drone[2])
      x == Hypot(dx, dy)
  IN IF x = 0 THEN 90 ELSE AtanDeg(Ratio1000(111000 * elevation, x))

\* app.py 463-494: 0 when a point is (0,0), else the distance in metres (one
\* unit of coordinate is one metre)
calculate_distance(lat1, lon1, lat2, lon2) ==
  IF lat1 = None \/ lon1 = None \/ lat2 = None \/ lon2 = None THEN 0
  ELSE IF lat1 = 0 /\ lon1 = 0 THEN 0
  ELSE IF lat2 = 0 /\ lon2 = 0 THEN 0
  ELSE Hypot(Abs(lat2 - lat1), Abs(lon2 - lon1))

\* the tilt without the clamp to the gimbal's limits
UnclampedTilt(tilt_deg) == tilt_deg

\* app.py 165-166: max(-90, min(30, tilt_deg))
ClampTilt(tilt_deg) == Max(0 - 90, Min(30, tilt_deg))

\* app.py 156-166: atan2(-altitude_diff, horizontal_distance) in degrees,
\* clamped to [-90, 30]; altitudes in centimetres, the distance in metres
calculate_gimbal_tilt_angle(drone_alt, user_alt, horizontal_distance) ==
  IF horizontal_distance <= 0 THEN 0
  ELSE LET altitude_diff == drone_alt - user_alt
           tilt_deg == IF altitude_diff >= 0
                         THEN 0 - AtanDeg(Ratio1000(altitude_diff, 100 * Min(horizontal_distance, 20000000)))
                         ELSE AtanDeg(Ratio1000(0 - altitude_diff, 100 * Min(horizontal_distance, 20000000)))
       IN ClampTilt(tilt_deg)

\* app.py 141-154: atan2(y, x) in degrees, normalised to [0, 360), resolved
\* to the eight compass directions: y has the sign of the difference of the
\* longitudes, x that of the latitudes; the four axes are exact and a
\* bearing between two of them is given as their middle.  atan2(0, 0) is 0.
\* No operand is tested against (0, 0)
calculate_bearing(lat1, lon1, lat2, lon2) ==
  LET y == Sgn(lon2 - lon1)
      x == Sgn(lat2 - lat1)
  IN CASE y = 0 /\ x >= 0 -> 0
       [] y > 0 /\ x > 0 -> 45
       [] y > 0 /\ x = 0 -> 90
       [] y > 0 /\ x < 0 -> 135
       [] y = 0 /\ x < 0 -> 180
       [] y < 0 /\ x < 0 -> 225
       [] y < 0 /\ x = 0 -> 270
       [] y < 0 /\ x > 0 -> 315

\* the points given to the two functions: the sentinel, the fixes, and a
\* point on every side of the sentinel
GeoPoints ==
  {Sentinel, PhoneFixA, PhoneFixB, LaptopFix, ManualFix}
    \cup {<<a, b>> : a \in {0 - 111000, 0, 111000}, b \in {0 - 111000, 0, 111000}}

\* app.py 183-186, 840-843: a caller computes the bearing and the distance
\* between two points
GeoCompute ==
  /\ ~geo.done
  /\ geo' = [geo EXCEPT !.done = TRUE,
                        !.distance = calculate_distance(geo.p1[1], geo.p1[2], geo.p2[1], geo.p2[2]),
                        !.bearing = calculate_bearing(geo.p1[1], geo.p1[2], geo.p2[1], geo.p2[2])]
  /\ UNCHANGED <<sentence, checksum_ok, coord_str, direction, decoded, decimal, response>>
  /\ UNCHANGED <<gpsVars, udpVars, locVars, linkVars, callVars, cfgVars, droneVars, fc, outVars, cmd, fl, tel>>

\* app.py 141-154, 196-206: the point 5 m from the drone on the bearing of
\* the user, the bearing resolved to the eight compass directions
OrientTarget(drone_location_, user_location, drone_alt) ==
  << drone_location_[1] + 5 * Sgn(user_location[1] - drone_location_[1]),
     drone_location_[2] + 5 * Sgn(user_location[2] - drone_location_[2]),
     drone_alt >>

(***************************************************************************)
(* validate_nmea_checksum.  A sentence is the sequence of the codes        *)
(* (ord) of its characters.                                                *)
(***************************************************************************)
\* ord('*')
Star == 42

RECURSIVE XorBits(_, _, _)
\* a ^ b on the lowest n bits
XorBits(a, b, n) ==
  IF n = 0 THEN 0
  ELSE ((a + b) % 2) + 2 * XorBits(a \div 2, b \div 2, n - 1)

\* app.py 319: calc_checksum ^= ord(char), on character codes below 256
Xor(a, b) == XorBits(a, b, 8)

RECURSIVE XorAll(_)
\* app.py 317-319: the XOR of the codes of content
XorAll(content) ==
  IF content = <<>> THEN 0 ELSE Xor(Head(content), XorAll(Tail(content)))

\* one digit of the format X
HexDigit(d) == IF d < 10 THEN 48 + d ELSE 55 + d

\* app.py 320: f"{calc_checksum:02X}" for calc_checksum below 256
Format02X(n) == <<HexDigit(n \div 16), HexDigit(n % 16)>>

\* str.upper on one character: a-z and the lower-case letters of Latin-1;
\* the sharp s (223, "SS" in upper case) is left as it is, being no hex digit
\* either way
UpperChar(c) ==
  IF c >= 97 /\ c <= 122 THEN c - 32
  ELSE IF c = 181 THEN 924
  ELSE IF c = 255 THEN 376
  ELSE IF c >= 224 /\ c <= 254 /\ c # 247 THEN c - 32
  ELSE c

\* app.py 320: checksum.upper()
Upper(str) == [i \in 1..Len(str) |-> UpperChar(str[i])]

\* a comparison of the checksum field that does not fold its case
SameChecksumExact(computed, checksum) == computed = checksum

\* app.py 320: f"{calc_checksum:02X}" == checksum.upper()
SameChecksum(computed, checksum) == computed = Upper(checksum)

\* the positions of '*' in the sentence
Stars(str) == {i \in 1..Len(str) : str[i] = Star}

\* app.py 310-322: False without '*'; with more than one, the unpacking of
\* split('*') raises and the except returns False; content loses its first
\* character, whatever it is
validate_nmea_checksum(str) ==
  IF Cardinality(Stars(str)) # 1 THEN FALSE
  ELSE LET p == CHOOSE i \in Stars(str) : TRUE
           content == SubSeq(str, 2, p - 1)
           checksum == SubSeq(str, p + 1, Len(str))
       IN SameChecksum(Format02X(XorAll(content)), checksum)

\* "$GPRMC,A*26", "$GNGGA,1.5*4E", "$GPGGA,7*4D"
ValidSentences ==
  { <<36, 71, 80, 82, 77, 67, 44, 65, 42, 50, 54>>,
    <<36, 71, 78, 71, 71, 65, 44, 49, 46, 53, 42, 52, 69>>,
    <<36, 71, 80, 71, 71, 65, 44, 55, 42, 52, 68>> }

\* the code c with bit b flipped
FlipBit(c, b) == IF (c \div (2 ^ b)) % 2 = 1 THEN c - 2 ^ b ELSE c + 2 ^ b

\* the sentence with bit b of its character i flipped
FlipAt(str, i, b) == [str EXCEPT ![i] = FlipBit(str[i], b)]

\* the characters of the content and of the checksum field: all but the
\* first character and the '*'
FieldPositions(str) == {i \in 2..Len(str) : str[i] # Star}

\* the variants of the sentence with one bit of one such character flipped
SingleBitFlips(str) == { FlipAt(str, i, b) : i \in FieldPositions(str), b \in 0..7 }

\* what arrives at the validator: the valid sentences and their variants
Sentences == ValidSentences \cup UNION { SingleBitFlips(v) : v \in ValidSentences }

\* app.py 415-417: the listener validates the sentence it has received
NmeaValidate(str) ==
  /\ sentence' = str
  /\ checksum_ok' = validate_nmea_checksum(str)
  /\ UNCHANGED <<coord_str, direction, decoded, decimal, geo, response>>
  /\ UNCHANGED <<gpsVars, udpVars, locVars, linkVars, callVars, cfgVars, droneVars, fc, outVars, cmd, fl, tel>>

(***************************************************************************)
(* nmea_to_decimal.  A coordinate field is the sequence of the codes of    *)
(* its characters; the value returned is in units of 1/600000 degree, a    *)
(* ten-thousandth of a minute, exact for fields with up to four decimals   *)
(***************************************************************************)
Dot == 46
IsDigit(c) == c >= 48 /\ c <= 57

\* str.find('.'): the 0-based index of the first '.', -1 without one
FindDot(str) ==
  IF \E i \in 1..Len(str) : str[i] = Dot
    THEN (CHOOSE i \in 1..Len(str) : str[i] = Dot /\ \A j \in 1..(i - 1) : str[j] # Dot) - 1
    ELSE 0 - 1

\* Python's str[:k] and str[k:], a negative k counting from the end
PyTo(str, k) ==
  IF k >= 0 THEN SubSeq(str, 1, Min(k, Len(str))) ELSE SubSeq(str, 1, Max(Len(str) + k, 0))
PyFrom(str, k) ==
  IF k >= 0 THEN SubSeq(str, Min(k, Len(str)) + 1, Len(str))
  ELSE SubSeq(str, Max(Len(str) + k, 0) + 1, Len(str))

\* the number a sequence of digits writes
RECURSIVE DigitsValue(_)
DigitsValue(str) ==
  IF str = <<>> THEN 0
  ELSE 10 * DigitsValue(SubSeq(str, 1, Len(str) - 1)) + (str[Len(str)] - 48)

\* int(str) on digits, dots and letters: None for the ValueError
PyInt(str) ==
  IF str # <<>> /\ \A i \in 1..Len(str) : IsDigit(str[i]) THEN DigitsValue(str) ELSE None

\* float(str) on digits, dots and letters, in ten-thousandths: digits with at
\* most one '.' and at least one digit; None for the ValueError
PyFloat(str) ==
  LET dots == {i \in 1..Len(str) : str[i] = Dot}
      digits == {i \in 1..Len(str) : IsDigit(str[i])}
  IN IF digits = {} \/ Cardinality(dots) > 1 \/ Cardinality(dots) + Cardinality(digits) # Len(str)
       THEN None
     ELSE IF dots = {} THEN 10000 * DigitsValue(str)
     ELSE LET p == CHOOSE i \in dots : TRUE
              frac == SubSeq(str, p + 1, Len(str))
          IN 10000 * DigitsValue(SubSeq(str, 1, p - 1))
             + (DigitsValue(frac) * 10000) \div (10 ^ Len(frac))

\* a sign rule that negates for 'S' only
NegatedSouthOnly(dir) == dir = "S"

\* app.py 340: if direction in ['S', 'W']
Negated(dir) == dir \in {"S", "W"}

\* app.py 324-343: nmea_to_decimal(coord_str, direction)
nmea_to_decimal(str, dir) ==
  IF str = <<>> \/ FindDot(str) < 0 THEN None
  ELSE IF Len(str) < 4 THEN None
  ELSE LET dot_pos == FindDot(str)
           degrees == PyInt(PyTo(str, dot_pos - 2))
           minutes == PyFloat(PyFrom(str, dot_pos - 2))
       IN IF degrees = None THEN None
          ELSE IF minutes = None THEN None
          ELSE IF Negated(dir) THEN 0 - (degrees * 600000 + minutes)
          ELSE degrees * 600000 + minutes

\* the fields and directions given to the decoder: all strings of digits,
\* dots and a letter up to the bound
CoordChars == {46, 48, 49, 88}
CoordStrings == UNION { [1..n -> CoordChars] : n \in 0..MaxCoordLen }
Directions == {"N", "S", "E", "W"}

\* app.py 359-360, 382-383: a parser calls nmea_to_decimal on a field
NmeaDecode ==
  /\ ~decoded
  /\ decoded' = TRUE
  /\ decimal' = nmea_to_decimal(coord_str, direction)
  /\ UNCHANGED <<coord_str, direction, sentence, checksum_ok, geo, response>>
  /\ UNCHANGED <<gpsVars, udpVars, locVars, linkVars, callVars, cfgVars, droneVars, fc, outVars, cmd, fl, tel>>

(***************************************************************************)
(* Status reads: GET /status, GET /location, GET /drone/metrics.  A handler *)
(* reads app.config and answers in one step; the age is time.time() minus   *)
(* last_phone_update at the read                                            *)
(***************************************************************************)
\* app.py 812-832: the class get_status() names in gps_status
gps_status(source, age) ==
  IF source = "phone"
    THEN IF age < Secs(10) THEN "live"
         ELSE IF age < Secs(30) THEN "recent"
         ELSE "stale"
  ELSE IF source = "laptop" THEN "fallback"
  ELSE IF source = "http" THEN "manual"
  ELSE "none"

\* app.py 630-644: the class GET /location names in source_status
source_status(source, age) ==
  IF source = "phone"
    THEN IF age < Secs(10) THEN "live"
         ELSE IF age < Secs(60) THEN "recent"
         ELSE "stale"
  ELSE IF source = "laptop" THEN "fallback"
  ELSE IF source = "http" THEN "manual"
  ELSE "none"

\* a read that withholds a location whose phone fix is stale
ReadLocationIfFresh(loc, source, age) ==
  IF source = "phone" /\ age >= Secs(30) THEN Sentinel ELSE loc

\* app.py 626, 781: app.config.get('current_location', (0, 0)), whatever
\* its source and age
ReadLocation(loc, source, age) == loc

\* app.py 669-670, 792-793: app.config.get('drone_metrics', {'connection_status':
\* 'Not Connected', ...}): the default stands in while no poll has published
ReadConnectionStatus(metrics) ==
  IF metrics.connection_status = "none" THEN "Not Connected" ELSE metrics.connection_status

\* app.py 778-875
GetStatus ==
  /\ response' = [route |-> "/status", code |-> 200,
                  location |-> ReadLocation(current_location, location_source, phone_age),
                  source |-> location_source,
                  health |-> gps_status(location_source, phone_age),
                  connection_status |-> ReadConnectionStatus(drone_metrics)]
  /\ UNCHANGED <<gpsVars, udpVars, locVars, linkVars, callVars, cfgVars, droneVars, fc, outVars, cmd, fl, tel, nmeaVars>>

\* app.py 625-652
GetLocation ==
  /\ response' = [route |-> "/location", code |-> 200,
                  location |-> ReadLocation(current_location, location_source, phone_age),
                  source |-> location_source,
                  health |-> source_status(location_source, phone_age),
                  connection_status |-> ""]
  /\ UNCHANGED <<gpsVars, udpVars, locVars, linkVars, callVars, cfgVars, droneVars, fc, outVars, cmd, fl, tel, nmeaVars>>

\* app.py 666-740: the health of a connected snapshot depends on the age of
\* its heartbeat, which the autopilot decides
GetDroneMetrics ==
  /\ \E connection_health \in
        IF ReadConnectionStatus(drone_metrics) = "Connected" THEN {"Good", "Fair", "Poor"}
        ELSE {"Disconnected"} :
       response' = [route |-> "/drone/metrics", code |-> 200,
                    location |-> <<drone_metrics.latitude, drone_metrics.longitude>>,
                    source |-> "",
                    health |-> connection_health,
                    connection_status |-> ReadConnectionStatus(drone_metrics)]
  /\ UNCHANGED <<gpsVars, udpVars, locVars, linkVars, callVars, cfgVars, droneVars, fc, outVars, cmd, fl, tel, nmeaVars>>

StatusRead == GetStatus \/ GetLocation \/ GetDroneMetrics

(***************************************************************************)
(* HTTP command handlers.  cmd.pc is "idle" between requests; cmd.result   *)
(* is what the last takeoff, follow or home request returned.              *)
(***************************************************************************)
Idle(res) ==
  [pc |-> "idle", elevation |-> 0, distance |-> 0, vehicle |-> NoLink,
   elapsed |-> 0, slept |-> 0, result |-> res, before |-> <<>>]

\* the handler goes on to pc
CmdGoto(pc) == cmd' = [cmd EXCEPT !.pc = pc]
\* the handler enters a waiting loop: start_time = time.time()
CmdWait(pc) == cmd' = [cmd EXCEPT !.pc = pc, !.elapsed = 0]
\* the handler calls time.sleep
CmdSleep(pc) == cmd' = [cmd EXCEPT !.pc = pc, !.slept = 0]

\* app.py 742-747: POST /drone/start
StartDroneTracking ==
  /\ cmd.pc = "idle"
  /\ tracking_active' = TRUE
  /\ UNCHANGED <<follow_mode, target_elevation, target_distance, auto_tracking_enabled, issued, callVars, cmd>>
  /\ UNCHANGED cmdFrame

\* app.py 749-754: POST /drone/stop
StopDroneTracking ==
  /\ cmd.pc = "idle"
  /\ tracking_active' = FALSE
  /\ UNCHANGED <<follow_mode, target_elevation, target_distance, auto_tracking_enabled, issued, callVars, cmd>>
  /\ UNCHANGED cmdFrame

\* app.py 943-952: POST /drone/follow/stop
StopDroneFollow ==
  /\ cmd.pc = "idle"
  /\ follow_mode' = FALSE
  /\ UNCHANGED <<tracking_active, target_elevation, target_distance, auto_tracking_enabled, issued, callVars, cmd>>
  /\ UNCHANGED cmdFrame

\* app.py 1893-1903: POST /tracking/auto/enable
EnableAutoTracking ==
  /\ cmd.pc = "idle"
  /\ auto_tracking_enabled' = TRUE
  /\ UNCHANGED <<tracking_active, follow_mode, target_elevation, target_distance, issued, callVars, cmd>>
  /\ UNCHANGED cmdFrame

\* app.py 1905-1915: POST /tracking/auto/disable
DisableAutoTracking ==
  /\ cmd.pc = "idle"
  /\ auto_tracking_enabled' = FALSE
  /\ UNCHANGED <<tracking_active, follow_mode, target_elevation, target_distance, issued, callVars, cmd>>
  /\ UNCHANGED cmdFrame

\* a landing request that leaves follow_mode as it finds it
FollowModeKept == follow_mode

\* app.py 959, 1020: app.config['follow_mode'] = False
FollowModeForLanding == FALSE

\* app.py 954-963: POST /drone/home: follow_mode = False; get_drone_vehicle()
HomeStart ==
  /\ cmd.pc = "idle"
  /\ follow_mode' = FollowModeForLanding
  /\ cmd' = [Idle("none") EXCEPT !.pc = "home_link"]
  /\ CallGetDroneVehicle("cmd")
  /\ UNCHANGED <<tracking_active, target_elevation, target_distance, auto_tracking_enabled, issued>>
  /\ UNCHANGED cmdFrame

\* app.py 963-966: if not vehicle: 500
HomeLinked ==
  /\ cmd.pc = "home_link"
  /\ Returned("cmd")
  /\ TakeReturn("cmd")
  /\ cmd' = IF cret["cmd"] = NoLink THEN Idle("NoLink")
            ELSE [cmd EXCEPT !.pc = "home_land", !.vehicle = cret["cmd"]]
  /\ UNCHANGED <<cfgVars, issued>>
  /\ UNCHANGED cmdFrame

\* app.py 970-973: vehicle.mode = VehicleMode("LAND")
HomeLand ==
  /\ cmd.pc = "home_land"
  /\ issued' = issued \cup {"LAND"}
  /\ cmd' = Idle("Landing")
  /\ UNCHANGED <<cfgVars, callVars>>
  /\ UNCHANGED cmdFrame

\* the steps of drone_home
DroneHome ==
  \/ HomeStart
  \/ HomeLinked
  \/ HomeLand

\* app.py 1013-1023: POST /drone/land: follow_mode = False; get_drone_vehicle()
LandStart ==
  /\ cmd.pc = "idle"
  /\ follow_mode' = FollowModeForLanding
  /\ cmd' = [Idle("none") EXCEPT !.pc = "land_link"]
  /\ CallGetDroneVehicle("cmd")
  /\ UNCHANGED <<tracking_active, target_elevation, target_distance, auto_tracking_enabled, issued>>
  /\ UNCHANGED cmdFrame

\* app.py 1024-1026: if not vehicle: 500
LandLinked ==
  /\ cmd.pc = "land_link"
  /\ Returned("cmd")
  /\ TakeReturn("cmd")
  /\ cmd' = IF cret["cmd"] = NoLink THEN Idle("NoLink")
            ELSE [cmd EXCEPT !.pc = "land_land", !.vehicle = cret["cmd"]]
  /\ UNCHANGED <<cfgVars, issued>>
  /\ UNCHANGED cmdFrame

\* app.py 1029-1033: vehicle.mode = VehicleMode("LAND")
LandLand ==
  /\ cmd.pc = "land_land"
  /\ issued' = issued \cup {"LAND"}
  /\ cmd' = Idle("Landing")
  /\ UNCHANGED <<cfgVars, callVars>>
  /\ UNCHANGED cmdFrame

\* the steps of drone_land
DroneLand ==
  \/ LandStart
  \/ LandLinked
  \/ LandLand

\* app.py 979-986: POST /drone/takeoff: get_drone_vehicle()
TakeoffStart ==
  /\ cmd.pc = "idle"
  /\ cmd' = [Idle("none") EXCEPT !.pc = "tk_link"]
  /\ CallGetDroneVehicle("cmd")
  /\ UNCHANGED <<cfgVars, issued>>
  /\ UNCHANGED cmdFrame

\* app.py 986-989: if not vehicle: 500
TakeoffLinked ==
  /\ cmd.pc = "tk_link"
  /\ Returned("cmd")
  /\ TakeReturn("cmd")
  /\ cmd' = IF cret["cmd"] = NoLink THEN Idle("NoLink")
            ELSE [cmd EXCEPT !.pc = "tk_tracking", !.vehicle = cret["cmd"]]
  /\ UNCHANGED <<cfgVars, issued>>
  /\ UNCHANGED cmdFrame

\* app.py 994-1000, 1161-1162: tracking_active = True; simple_takeoff_only
\* begins its wait for is_armable
TakeoffTracking ==
  /\ cmd.pc = "tk_tracking"
  /\ tracking_active' = TRUE
  /\ issued' = {}
  /\ CmdWait("sto_armable")
  /\ UNCHANGED <<follow_mode, target_elevation, target_distance, auto_tracking_enabled, callVars>>
  /\ UNCHANGED cmdFrame

(***************************************************************************)
(* simple_takeoff_only(vehicle, 1.5): every wait has a bound                *)
(***************************************************************************)
HalfSecond == TicksPerSecond \div 2

\* a bound test that already fires when the bound is reached
ArmableTimedOutAt(elapsed) == elapsed >= Secs(armable_timeout)

\* app.py 1166: if elapsed > armable_timeout
ArmableTimedOut(elapsed) == elapsed > Secs(armable_timeout)

\* the time.sleep calls of simple_takeoff_only (1193, 1213, 1217, 1246, 1295)
\* and of arm_and_takeoff (1116, 1126, 1138): duration, and where they resume
StoSleeps == {"sto_armable_sleep", "sto_mode_sleep", "sto_settle", "sto_armed_sleep", "sto_climb_sleep"}
AatSleeps == {"aat_armable_sleep", "aat_armed_sleep", "aat_climb_sleep"}

SleepTicks(pc) ==
  CASE pc = "sto_armable_sleep" -> Secs(1)
    [] pc = "sto_mode_sleep"    -> HalfSecond
    [] pc = "sto_settle"        -> Secs(1)
    [] pc = "sto_armed_sleep"   -> HalfSecond
    [] pc = "sto_climb_sleep"   -> HalfSecond
    [] pc \in AatSleeps         -> Secs(1)
    [] OTHER                    -> 0

AfterSleep(pc) ==
  CASE pc = "sto_armable_sleep" -> "sto_armable"
    [] pc = "sto_mode_sleep"    -> "sto_mode"
    [] pc = "sto_settle"        -> "sto_arm"
    [] pc = "sto_armed_sleep"   -> "sto_armed"
    [] pc = "sto_climb_sleep"   -> "sto_climb"
    [] pc = "aat_armable_sleep" -> "aat_armable"
    [] pc = "aat_armed_sleep"   -> "aat_armed"
    [] pc = "aat_climb_sleep"   -> "aat_climb"
    [] OTHER                    -> pc

\* the bound, in seconds, of the waiting loop pc belongs to; 0 outside the
\* bounded loops
WaitBound(pc) ==
  CASE pc \in {"sto_armable", "sto_armable_sleep"} -> armable_timeout
    [] pc \in {"sto_mode", "sto_mode_sleep"}       -> mode_timeout
    [] pc \in {"sto_armed", "sto_armed_sleep"}     -> arm_timeout
    [] pc \in {"sto_climb", "sto_climb_sleep"}     -> takeoff_timeout
    [] OTHER                                        -> 0

\* a failure after which the sequence starts over instead of returning
RetryAfterFailure(reason) == [Idle(reason) EXCEPT !.pc = "sto_armable"]

\* app.py 1192, 1211, 1244, 1268, 1281, 1004-1007: return False;
\* drone_takeoff answers 500 "Takeoff failed"
Failed(reason) == Idle(reason)

\* app.py 1164-1193: while not vehicle.is_armable: fail after the bound, else sleep(1)
StoArmable ==
  /\ cmd.pc = "sto_armable"
  /\ cmd' = IF fc.is_armable THEN [cmd EXCEPT !.pc = "sto_guided", !.elapsed = 0]
            ELSE IF ArmableTimedOut(cmd.elapsed) THEN Failed("NotArmable")
            ELSE [cmd EXCEPT !.pc = "sto_armable_sleep", !.slept = 0]
  /\ UNCHANGED <<cfgVars, issued, callVars>>
  /\ UNCHANGED cmdFrame

\* app.py 1201-1205: vehicle.mode = VehicleMode("GUIDED"); start_time = time.time()
StoGuided ==
  /\ cmd.pc = "sto_guided"
  /\ issued' = issued \cup {"GUIDED"}
  /\ CmdWait("sto_mode")
  /\ UNCHANGED <<cfgVars, callVars>>
  /\ UNCHANGED cmdFrame

\* app.py 1206-1217: while vehicle.mode.name != "GUIDED": fail after 10 s, else sleep(0.5)
StoMode ==
  /\ cmd.pc = "sto_mode"
  /\ cmd' = IF fc.mode = "GUIDED" THEN [cmd EXCEPT !.pc = "sto_settle", !.elapsed = 0, !.slept = 0]
            ELSE IF cmd.elapsed > Secs(mode_timeout) THEN Failed("ModeTimeout")
            ELSE [cmd EXCEPT !.pc = "sto_mode_sleep", !.slept = 0]
  /\ UNCHANGED <<cfgVars, issued, callVars>>
  /\ UNCHANGED cmdFrame

\* app.py 1222-1226: vehicle.armed = True; start_time = time.time()
StoArm ==
  /\ cmd.pc = "sto_arm"
  /\ issued' = issued \cup {"ARM"}
  /\ CmdWait("sto_armed")
  /\ UNCHANGED <<cfgVars, callVars>>
  /\ UNCHANGED cmdFrame

\* app.py 1228-1246: while not vehicle.armed: fail after 15 s, else sleep(0.5)
StoArmed ==
  /\ cmd.pc = "sto_armed"
  /\ cmd' = IF fc.armed THEN [cmd EXCEPT !.pc = "sto_takeoff", !.elapsed = 0]
            ELSE IF cmd.elapsed > Secs(arm_timeout) THEN Failed("ArmTimeout")
            ELSE [cmd EXCEPT !.pc = "sto_armed_sleep", !.slept = 0]
  /\ UNCHANGED <<cfgVars, issued, callVars>>
  /\ UNCHANGED cmdFrame

\* app.py 1254-1260: vehicle.simple_takeoff(target_altitude); start_time = time.time()
StoTakeoff ==
  /\ cmd.pc = "sto_takeoff"
  /\ issued' = issued \cup {"TAKEOFF"}
  /\ CmdWait("sto_climb")
  /\ UNCHANGED <<cfgVars, callVars>>
  /\ UNCHANGED cmdFrame

\* app.py 1262-1295: fail after 60 s or when disarmed, succeed at 95 % of the
\* target altitude (a missing altitude counts as 0), else sleep(0.5)
StoClimb ==
  /\ cmd.pc = "sto_climb"
  /\ cmd' = IF cmd.elapsed > Secs(takeoff_timeout) THEN Failed("TakeoffTimeout")
            ELSE IF ~fc.armed THEN Failed("Disarmed")
            ELSE IF Reached(PyOr0(fc.alt), takeoff_altitude) THEN Idle("Flying")
            ELSE [cmd EXCEPT !.pc = "sto_climb_sleep", !.slept = 0]
  /\ UNCHANGED <<cfgVars, issued, callVars>>
  /\ UNCHANGED cmdFrame

\* a time.sleep of simple_takeoff_only returns
StoSleep ==
  /\ cmd.pc \in StoSleeps
  /\ cmd.slept >= SleepTicks(cmd.pc)
  /\ cmd' = [cmd EXCEPT !.pc = AfterSleep(cmd.pc), !.slept = 0]
  /\ UNCHANGED <<cfgVars, issued, callVars>>
  /\ UNCHANGED cmdFrame

\* the steps of simple_takeoff_only
SimpleTakeoffOnly ==
  \/ StoArmable
  \/ StoGuided
  \/ StoMode
  \/ StoArm
  \/ StoArmed
  \/ StoTakeoff
  \/ StoClimb
  \/ StoSleep

\* the steps of drone_takeoff
DroneTakeoff ==
  \/ TakeoffStart
  \/ TakeoffLinked
  \/ TakeoffTracking
  \/ SimpleTakeoffOnly

(***************************************************************************)
(* start_drone_follow and arm_and_takeoff(vehicle, elevation): no wait of  *)
(* arm_and_takeoff has a bound                                             *)
(***************************************************************************)
\* the parameters and the flags start_drone_follow writes; cmd.before records
\* them as they are when the request arrives
FollowConfig == <<target_elevation, target_distance, tracking_active, follow_mode>>

\* app.py 894-896: the body is read
StartFollowRequest(e, d) ==
  /\ cmd.pc = "idle"
  /\ cmd' = [Idle("none") EXCEPT !.pc = "sf_validate", !.elevation = e, !.distance = d,
                                 !.before = FollowConfig]
  /\ UNCHANGED <<cfgVars, issued, callVars>>
  /\ UNCHANGED cmdFrame

\* app.py 902-907: 400 when the elevation or the distance is out of range
StartFollowValidate ==
  /\ cmd.pc = "sf_validate"
  /\ cmd' = IF ~ValidElevation(cmd.elevation) \/ ~ValidDistance(cmd.distance)
              THEN Idle("Rejected")
              ELSE [cmd EXCEPT !.pc = "sf_store_elevation"]
  /\ UNCHANGED <<cfgVars, issued, callVars>>
  /\ UNCHANGED cmdFrame

\* app.py 910: app.config['target_elevation'] = elevation
StartFollowStoreElevation ==
  /\ cmd.pc = "sf_store_elevation"
  /\ target_elevation' = cmd.elevation
  /\ CmdGoto("sf_store_distance")
  /\ UNCHANGED <<tracking_active, follow_mode, target_distance, auto_tracking_enabled, issued, callVars>>
  /\ UNCHANGED cmdFrame

\* app.py 911-914: app.config['target_distance'] = distance; get_drone_vehicle()
StartFollowStoreDistance ==
  /\ cmd.pc = "sf_store_distance"
  /\ target_distance' = cmd.distance
  /\ CmdGoto("sf_link")
  /\ CallGetDroneVehicle("cmd")
  /\ UNCHANGED <<tracking_active, follow_mode, target_elevation, auto_tracking_enabled, issued>>
  /\ UNCHANGED cmdFrame

\* app.py 914-917: if not vehicle: 500
StartFollowLinked ==
  /\ cmd.pc = "sf_link"
  /\ Returned("cmd")
  /\ TakeReturn("cmd")
  /\ cmd' = IF cret["cmd"] = NoLink THEN Idle("NoLink")
            ELSE [cmd EXCEPT !.pc = "sf_tracking", !.vehicle = cret["cmd"]]
  /\ UNCHANGED <<cfgVars, issued>>
  /\ UNCHANGED cmdFrame

\* app.py 922-927: tracking_active = True; arm_and_takeoff(vehicle, elevation)
StartFollowTracking ==
  /\ cmd.pc = "sf_tracking"
  /\ tracking_active' = TRUE
  /\ issued' = {}
  /\ CmdGoto("aat_armable")
  /\ UNCHANGED <<follow_mode, target_elevation, target_distance, auto_tracking_enabled, callVars>>
  /\ UNCHANGED cmdFrame

\* app.py 1114-1116: while not vehicle.is_armable: sleep(1)
AatArmable ==
  /\ cmd.pc = "aat_armable"
  /\ IF fc.is_armable THEN CmdGoto("aat_guided") ELSE CmdSleep("aat_armable_sleep")
  /\ UNCHANGED <<cfgVars, issued, callVars>>
  /\ UNCHANGED cmdFrame

\* app.py 1120: vehicle.mode = VehicleMode("GUIDED")
AatGuided ==
  /\ cmd.pc = "aat_guided"
  /\ issued' = issued \cup {"GUIDED"}
  /\ CmdGoto("aat_arm")
  /\ UNCHANGED <<cfgVars, callVars>>
  /\ UNCHANGED cmdFrame

\* app.py 1121: vehicle.armed = True
AatArm ==
  /\ cmd.pc = "aat_arm"
  /\ issued' = issued \cup {"ARM"}
  /\ CmdGoto("aat_armed")
  /\ UNCHANGED <<cfgVars, callVars>>
  /\ UNCHANGED cmdFrame

\* app.py 1124-1126: while not vehicle.armed: sleep(1)
AatArmed ==
  /\ cmd.pc = "aat_armed"
  /\ IF fc.armed THEN CmdGoto("aat_takeoff") ELSE CmdSleep("aat_armed_sleep")
  /\ UNCHANGED <<cfgVars, issued, callVars>>
  /\ UNCHANGED cmdFrame

\* app.py 1130: vehicle.simple_takeoff(target_elevation_above_user)
AatTakeoff ==
  /\ cmd.pc = "aat_takeoff"
  /\ issued' = issued \cup {"TAKEOFF"}
  /\ CmdGoto("aat_climb")
  /\ UNCHANGED <<cfgVars, callVars>>
  /\ UNCHANGED cmdFrame

\* app.py 1133-1138, 939-941: leave the loop at 95 % of the elevation, else
\* sleep(1); comparing a missing altitude raises TypeError, which
\* start_drone_follow answers with 500
AatClimb ==
  /\ cmd.pc = "aat_climb"
  /\ cmd' = IF fc.alt = None THEN Idle("Error")
            ELSE IF Reached(fc.alt, 100 * cmd.elevation) THEN [cmd EXCEPT !.pc = "sf_follow_mode"]
            ELSE [cmd EXCEPT !.pc = "aat_climb_sleep", !.slept = 0]
  /\ UNCHANGED <<cfgVars, issued, callVars>>
  /\ UNCHANGED cmdFrame

\* a time.sleep of arm_and_takeoff returns
AatSleep ==
  /\ cmd.pc \in AatSleeps
  /\ cmd.slept >= SleepTicks(cmd.pc)
  /\ cmd' = [cmd EXCEPT !.pc = AfterSleep(cmd.pc), !.slept = 0]
  /\ UNCHANGED <<cfgVars, issued, callVars>>
  /\ UNCHANGED cmdFrame

\* app.py 930-937: app.config['follow_mode'] = True
StartFollowFollowMode ==
  /\ cmd.pc = "sf_follow_mode"
  /\ follow_mode' = TRUE
  /\ cmd' = Idle("Flying")
  /\ UNCHANGED <<tracking_active, target_elevation, target_distance, auto_tracking_enabled, issued, callVars>>
  /\ UNCHANGED cmdFrame

\* the steps of arm_and_takeoff
ArmAndTakeoff ==
  \/ AatArmable
  \/ AatGuided
  \/ AatArm
  \/ AatArmed
  \/ AatTakeoff
  \/ AatClimb
  \/ AatSleep

\* the steps of start_drone_follow
StartDroneFollow ==
  \/ \E e \in Elevations, d \in Distances : StartFollowRequest(e, d)
  \/ StartFollowValidate
  \/ StartFollowStoreElevation
  \/ StartFollowStoreDistance
  \/ StartFollowLinked
  \/ StartFollowTracking
  \/ ArmAndTakeoff
  \/ StartFollowFollowMode

(***************************************************************************)
(* drone_follow_loop, update_gimbal_for_tracking, orient_drone_towards_user *)
(***************************************************************************)
NoGoto == <<None, None, None>>

\* the loop's locals outside a cycle
FlRest(pc) ==
  [pc |-> pc, user_location |-> Sentinel, elevation |-> 0, distance |-> 0,
   vehicle |-> NoLink, o_user |-> Sentinel, o_drone |-> Sentinel, slept |-> 0]

\* an exception that ends the thread
FollowExit == "exit"

\* app.py 1355-1357: except Exception: log, time.sleep(5), next iteration
AfterException == "sleep5"

\* app.py 1354, 1357: time.sleep(3) at the end of a cycle, time.sleep(5) after an exception
FlSleepTicks(pc) ==
  CASE pc = "sleep3" -> Secs(3)
    [] pc = "sleep5" -> Secs(5)
    [] OTHER         -> 0

FlGoes(pc) == fl' = [fl EXCEPT !.pc = pc]

\* a test of follow_mode that finds it set whatever its value
FollowingAlways == TRUE

\* app.py 1324: app.config.get('follow_mode', False)
Following == follow_mode

\* app.py 1324: if app.config.get('follow_mode', False)
FlTop ==
  /\ fl.pc = "top"
  /\ fl' = IF Following THEN [fl EXCEPT !.pc = "read_location"] ELSE FlRest("sleep3")
  /\ UNCHANGED <<last_goto, gimbal_tilt_angle, gimbal_out, callVars>>
  /\ UNCHANGED flFrame

\* app.py 1325: user_location = app.config.get('current_location', (0, 0))
FlReadLocation ==
  /\ fl.pc = "read_location"
  /\ fl' = [fl EXCEPT !.pc = "read_elevation", !.user_location = current_location]
  /\ UNCHANGED <<last_goto, gimbal_tilt_angle, gimbal_out, callVars>>
  /\ UNCHANGED flFrame

\* app.py 1326: elevation_above_user = app.config.get('target_elevation', 20)
FlReadElevation ==
  /\ fl.pc = "read_elevation"
  /\ fl' = [fl EXCEPT !.pc = "read_distance", !.elevation = target_elevation]
  /\ UNCHANGED <<last_goto, gimbal_tilt_angle, gimbal_out, callVars>>
  /\ UNCHANGED flFrame

\* app.py 1327: ground_distance = app.config.get('target_distance', 10)
FlReadDistance ==
  /\ fl.pc = "read_distance"
  /\ fl' = [fl EXCEPT !.pc = "check_location", !.distance = target_distance]
  /\ UNCHANGED <<last_goto, gimbal_tilt_angle, gimbal_out, callVars>>
  /\ UNCHANGED flFrame

\* app.py 1329-1336: if user_location != (0, 0): ... get_drone_vehicle()
FlCheckLocation ==
  /\ fl.pc = "check_location"
  /\ IF HasLocation(fl.user_location)
       THEN /\ FlGoes("link")
            /\ CallGetDroneVehicle("follow")
       ELSE /\ FlGoes("no_location")
            /\ UNCHANGED callVars
  /\ UNCHANGED <<last_goto, gimbal_tilt_angle, gimbal_out>>
  /\ UNCHANGED flFrame

\* app.py 1351-1354: "No user location available for following"
FlNoLocation ==
  /\ fl.pc = "no_location"
  /\ fl' = FlRest("sleep3")
  /\ UNCHANGED <<last_goto, gimbal_tilt_angle, gimbal_out, callVars>>
  /\ UNCHANGED flFrame

\* app.py 1336-1337, 1349-1350: if vehicle: ... else "No vehicle connection - retrying..."
FlLinked ==
  /\ fl.pc = "link"
  /\ Returned("follow")
  /\ TakeReturn("follow")
  /\ fl' = IF cret["follow"] = NoLink THEN FlRest("sleep3")
           ELSE [fl EXCEPT !.pc = "goto", !.vehicle = cret["follow"]]
  /\ UNCHANGED <<last_goto, gimbal_tilt_angle, gimbal_out>>
  /\ UNCHANGED flFrame

\* app.py 1330-1340: vehicle.simple_goto(LocationGlobalRelative(target_lat, target_lon, elevation_above_user))
FlGoto ==
  /\ fl.pc = "goto"
  /\ LET target == calculate_target_position(fl.user_location[1], fl.user_location[2],
                                             fl.elevation, fl.distance)
     IN last_goto' = <<target[1], target[2], fl.elevation>>
  /\ FlGoes("gimbal")
  /\ UNCHANGED <<gimbal_tilt_angle, gimbal_out, callVars>>
  /\ UNCHANGED flFrame

\* app.py 1340, 1355-1357: simple_goto raises on a link that is no longer live
FlGotoRaises ==
  /\ fl.pc = "goto"
  /\ ~IsLive(fl.vehicle)
  /\ fl' = FlRest(AfterException)
  /\ UNCHANGED <<last_goto, gimbal_tilt_angle, gimbal_out, callVars>>
  /\ UNCHANGED flFrame

\* app.py 1344, 1302-1315: update_gimbal_for_tracking: set_gimbal_angle(get_angle(...))
\* when both locations are known
FlUpdateGimbal ==
  /\ fl.pc = "gimbal"
  /\ gimbal_out' = IF current_location # Sentinel /\ drone_location # Sentinel
                     THEN get_angle(target_elevation, drone_location, current_location)
                     ELSE gimbal_out
  /\ FlGoes("auto")
  /\ UNCHANGED <<last_goto, gimbal_tilt_angle, callVars>>
  /\ UNCHANGED flFrame

\* app.py 1347-1348: if app.config.get('auto_tracking_enabled', False): orient_drone_towards_user()
FlAuto ==
  /\ fl.pc = "auto"
  /\ fl' = IF auto_tracking_enabled THEN [fl EXCEPT !.pc = "orient"] ELSE FlRest("sleep3")
  /\ UNCHANGED <<last_goto, gimbal_tilt_angle, gimbal_out, callVars>>
  /\ UNCHANGED flFrame

\* app.py 171-173: the two locations are read; get_drone_vehicle()
OrientRead ==
  /\ fl.pc = "orient"
  /\ fl' = [fl EXCEPT !.pc = "orient_link", !.o_user = current_location, !.o_drone = drone_location]
  /\ CallGetDroneVehicle("follow")
  /\ UNCHANGED <<last_goto, gimbal_tilt_angle, gimbal_out>>
  /\ UNCHANGED flFrame

\* app.py 173-177: return without a location, a vehicle or auto tracking
OrientLinked ==
  /\ fl.pc = "orient_link"
  /\ Returned("follow")
  /\ TakeReturn("follow")
  /\ fl' = IF \/ fl.o_user = Sentinel
              \/ fl.o_drone = Sentinel
              \/ cret["follow"] = NoLink
              \/ ~auto_tracking_enabled
             THEN FlRest("sleep3")
             ELSE [fl EXCEPT !.pc = "orient_act", !.vehicle = cret["follow"]]
  /\ UNCHANGED <<last_goto, gimbal_tilt_angle, gimbal_out>>
  /\ UNCHANGED flFrame

\* app.py 179-215: the tilt is computed and clamped; in GUIDED, AUTO or LOITER
\* the drone is sent 5 m towards the user; the tilt is stored and given to
\* set_gimbal_angle
OrientAct ==
  /\ fl.pc = "orient_act"
  /\ LET drone_alt == drone_metrics.altitude_relative
         horizontal_distance == calculate_distance(fl.o_drone[1], fl.o_drone[2], fl.o_user[1], fl.o_user[2])
         required_tilt == calculate_gimbal_tilt_angle(drone_alt, 0, horizontal_distance)
     IN /\ last_goto' = IF fc.mode \in {"GUIDED", "AUTO", "LOITER"}
                          THEN OrientTarget(fl.o_drone, fl.o_user, drone_alt)
                          ELSE last_goto
        /\ gimbal_tilt_angle' = required_tilt
        /\ gimbal_out' = required_tilt
  /\ fl' = FlRest("sleep3")
  /\ UNCHANGED callVars
  /\ UNCHANGED flFrame

\* app.py 206, 217-218: simple_goto raises on a link that is no longer live;
\* orient_drone_towards_user logs the error and returns
OrientGotoRaises ==
  /\ fl.pc = "orient_act"
  /\ fc.mode \in {"GUIDED", "AUTO", "LOITER"}
  /\ ~IsLive(fl.vehicle)
  /\ fl' = FlRest("sleep3")
  /\ UNCHANGED <<last_goto, gimbal_tilt_angle, gimbal_out, callVars>>
  /\ UNCHANGED flFrame

\* app.py 1354, 1357: time.sleep returns; the next iteration of while True
FlSleep ==
  /\ fl.pc \in {"sleep3", "sleep5"}
  /\ fl.slept >= FlSleepTicks(fl.pc)
  /\ fl' = FlRest("top")
  /\ UNCHANGED <<last_goto, gimbal_tilt_angle, gimbal_out, callVars>>
  /\ UNCHANGED flFrame

\* the steps of the follow loop proper
FollowCycle ==
  \/ FlTop
  \/ FlReadLocation
  \/ FlReadElevation
  \/ FlReadDistance
  \/ FlCheckLocation
  \/ FlNoLocation
  \/ FlLinked
  \/ FlGoto
  \/ FlGotoRaises
  \/ FlUpdateGimbal
  \/ FlAuto
  \/ OrientRead
  \/ OrientLinked
  \/ OrientAct
  \/ OrientGotoRaises
  \/ FlSleep

(***************************************************************************)
(* drone_telemetry_loop                                                    *)
(***************************************************************************)
TelRest(pc) == [pc |-> pc, vehicle |-> NoLink, drone_lat |-> 0, drone_lon |-> 0, slept |-> 0]

\* a test of tracking_active that finds it set whatever its value
TrackingAlways == TRUE

\* app.py 503: app.config.get('tracking_active', False)
Tracking == tracking_active

\* app.py 503-504: if tracking_active: vehicle = get_drone_vehicle()
TelTop ==
  /\ tel.pc = "top"
  /\ IF Tracking
       THEN /\ tel' = [tel EXCEPT !.pc = "link"]
            /\ CallGetDroneVehicle("telem")
       ELSE /\ tel' = TelRest("sleep2")
            /\ UNCHANGED callVars
  /\ UNCHANGED droneVars
  /\ UNCHANGED telFrame

\* app.py 504-505: if vehicle
TelLinked ==
  /\ tel.pc = "link"
  /\ Returned("telem")
  /\ TakeReturn("telem")
  /\ tel' = IF cret["telem"] = NoLink THEN [tel EXCEPT !.pc = "disconnected"]
            ELSE [tel EXCEPT !.pc = "locate", !.vehicle = cret["telem"]]
  /\ UNCHANGED droneVars
  /\ UNCHANGED telFrame

\* app.py 507: drone_lat, drone_lon = get_current_location()
TelLocate ==
  /\ tel.pc = "locate"
  /\ tel' = [tel EXCEPT !.pc = "located"]
  /\ CallGetCurrentLocation("telem")
  /\ UNCHANGED droneVars
  /\ UNCHANGED telFrame

\* app.py 507-512, telemetry.py 252-260: app.config['drone_location'] = (drone_lat, drone_lon)
TelLocated(pos) ==
  /\ tel.pc = "located"
  /\ Returned("telem")
  /\ TakeReturn("telem")
  /\ LET located == GetCurrentLocation(cret["telem"], pos)
     IN /\ drone_location' = located
        /\ tel' = [tel EXCEPT !.pc = "metrics", !.drone_lat = located[1], !.drone_lon = located[2]]
  /\ UNCHANGED drone_metrics
  /\ UNCHANGED telFrame

\* app.py 515-547: app.config['drone_metrics'] = {...} from the coordinates this
\* poll read (517-518) and the link's attributes
TelMetrics ==
  /\ tel.pc = "metrics"
  /\ drone_metrics' = [latitude |-> PyOr0(tel.drone_lat), longitude |-> PyOr0(tel.drone_lon),
                       altitude_relative |-> PyOr0(fc.alt), connection_status |-> "Connected"]
  /\ tel' = TelRest("sleep2")
  /\ UNCHANGED <<drone_location, callVars>>
  /\ UNCHANGED telFrame

\* app.py 555-577: app.config['drone_metrics'] = {'connection_status': 'Disconnected', ...}
TelDisconnected ==
  /\ tel.pc = "disconnected"
  /\ drone_metrics' = [latitude |-> 0, longitude |-> 0,
                       altitude_relative |-> 0, connection_status |-> "Disconnected"]
  /\ tel' = TelRest("sleep2")
  /\ UNCHANGED <<drone_location, callVars>>
  /\ UNCHANGED telFrame

\* app.py 515-551, 579-593: reading the attributes of a link that is no
\* longer live raises; the except branch publishes the error snapshot (no
\* coordinates, altitude_relative 0) and sleeps 5 s
TelMetricsRaises ==
  /\ tel.pc = "metrics"
  /\ ~IsLive(tel.vehicle)
  /\ drone_metrics' = [latitude |-> 0, longitude |-> 0,
                       altitude_relative |-> 0, connection_status |-> "Error"]
  /\ tel' = TelRest("sleep5")
  /\ UNCHANGED <<drone_location, callVars>>
  /\ UNCHANGED telFrame

\* the time.sleep calls of drone_telemetry_loop (578, 593)
TelSleepTicks(pc) ==
  CASE pc = "sleep2" -> Secs(2)
    [] pc = "sleep5" -> Secs(5)
    [] OTHER         -> 0

\* app.py 578, 593: time.sleep returns
TelSleep ==
  /\ TelSleepTicks(tel.pc) > 0
  /\ tel.slept >= TelSleepTicks(tel.pc)
  /\ tel' = TelRest("top")
  /\ UNCHANGED <<droneVars, callVars>>
  /\ UNCHANGED telFrame

\* the steps of the telemetry poller with a vehicle
TelemetryPoll ==
  \/ TelTop
  \/ TelLinked
  \/ TelLocate
  \/ \E pos \in VehiclePositions : TelLocated(pos)
  \/ TelMetrics
  \/ TelMetricsRaises
  \/ TelSleep

(***************************************************************************)
(* The vehicle and its link                                                *)
(***************************************************************************)
\* the autopilot reports a new value of one attribute
FcReport(u) ==
  /\ fc[u[1]] # u[2]
  /\ fc' = [fc EXCEPT ![u[1]] = u[2]]
  /\ UNCHANGED linkVars
  /\ UNCHANGED envFrame

\* the link h is lost (radio out of range, autopilot switched off)
LinkLost(h) ==
  /\ links[h] = "live"
  /\ links' = [links EXCEPT ![h] = "lost"]
  /\ UNCHANGED <<drone_vehicle, vehicle, fc>>
  /\ UNCHANGED envFrame

(***************************************************************************)
(* The clock                                                               *)
(***************************************************************************)
\* d ticks pass: every running difference time.time() - t0 grows by d
Tick(d) ==
  /\ phone_age' = Min(phone_age + d, AgeCap)
  /\ cmd' = [cmd EXCEPT
       !.elapsed = IF WaitBound(cmd.pc) > 0 THEN Min(@ + d, Secs(WaitBound(cmd.pc)) + 1) ELSE @,
       !.slept = IF SleepTicks(cmd.pc) > 0 THEN Min(@ + d, SleepTicks(cmd.pc)) ELSE @]
  /\ fl' = [fl EXCEPT !.slept = IF FlSleepTicks(fl.pc) > 0 THEN Min(@ + d, FlSleepTicks(fl.pc)) ELSE @]
  /\ tel' = [tel EXCEPT !.slept = IF TelSleepTicks(tel.pc) > 0 THEN Min(@ + d, TelSleepTicks(tel.pc)) ELSE @]
  /\ UNCHANGED <<loc_pc, loc_req, loc_phone_timeout>>
  /\ UNCHANGED tickFrame

(***************************************************************************)
(* Initial state: app.py 27-53, telemetry.py 6                             *)
(***************************************************************************)
InitRest ==
  /\ phone_age = AgeCap
  /\ drone_vehicle = NoLink
  /\ vehicle = NoLink
  /\ links = [h \in Handles |-> "unused"]
  /\ udp_pc = "recv"
  /\ udp_fix = Sentinel
  /\ udp_laptop = Sentinel
  /\ loc_pc = "idle"
  /\ loc_req = Sentinel
  /\ loc_phone_timeout = 0
  /\ cpc = [t \in Threads |-> "none"]
  /\ cvia = [t \in Threads |-> "gdv"]
  /\ cidx = [t \in Threads |-> 0]
  /\ cret = [t \in Threads |-> NoLink]
  /\ tracking_active = FALSE
  /\ follow_mode = FALSE
  /\ target_elevation = 20
  /\ target_distance = 10
  /\ drone_location = Sentinel
  /\ drone_metrics = [latitude |-> 0, longitude |-> 0,
                      altitude_relative |-> 0, connection_status |-> "none"]
  /\ auto_tracking_enabled = FALSE
  /\ gimbal_tilt_angle = 0
  /\ fc = [is_armable |-> FALSE, mode |-> "STABILIZE", armed |-> FALSE, alt |-> None]
  /\ issued = {}
  /\ last_goto = NoGoto
  /\ gimbal_out = None
  /\ cmd = Idle("none")
  /\ fl = FlRest("top")
  /\ tel = TelRest("top")
  /\ sentence = <<>>
  /\ checksum_ok = FALSE

InitApp ==
  /\ current_location = Sentinel
  /\ location_source = "none"
  /\ InitRest

\* calculate_distance and calculate_bearing on the points p1 and p2, not yet called
GeoCall(p1, p2) == [p1 |-> p1, p2 |-> p2, done |-> FALSE, distance |-> None, bearing |-> None]

\* neither a decoder nor a distance or a bearing has been called
NoDecode ==
  /\ geo = GeoCall(Sentinel, Sentinel)
  /\ coord_str = <<>>
  /\ direction = "N"
  /\ decoded = FALSE
  /\ decimal = None

\* no status read has been answered
NoResponse ==
  [route |-> "none", code |-> 0, location |-> Sentinel, source |-> "", health |-> "",
   connection_status |-> ""]

Init == InitApp /\ NoDecode /\ response = NoResponse

(***************************************************************************)
(* The arbiter: the listener thread, the POST /location handler, the clock *)
(***************************************************************************)
NextGps ==
  \/ GpsUdpReceiver
  \/ HandleLocation
  \/ Tick(Secs(GpsTickSeconds))

SpecGps == Init /\ [][NextGps]_vars

\* a POST /location body with both coordinates
ManualRequest ==
  [nodata |-> FALSE, latitude |-> ManualFix[1], lat |-> None, longitude |-> ManualFix[2], lon |-> None]

\* the arbiter with a phone that streams valid GGA sentences or falls
\* silent while no vehicle is there to fall back on, an operator who posts
\* a location, and the clients that read the state
NextStatus ==
  \/ UdpRecv(GoodGGA)
  \/ UdpSetLoc
  \/ UdpSetSrc
  \/ UdpSetTime
  \/ LocPost(ManualRequest)
  \/ LocReadTime
  \/ LocCheck
  \/ LocSetLoc
  \/ LocSetSrc
  \/ Tick(Secs(GpsTickSeconds))
  \/ GetStatus
  \/ GetLocation
  \/ GetDroneMetrics

SpecStatus == Init /\ [][NextStatus]_vars

\* the scheduler runs every thread that can take a step, and time passes;
\* whether a datagram or a request arrives is up to the environment
UdpProgress ==
  \/ UdpSetLoc
  \/ UdpSetSrc
  \/ UdpSetTime
  \/ UdpTimeout
  \/ UdpFallbackAge
  \/ ConnectVehicle("udp")
  \/ \E pos \in VehiclePositions : UdpFallbackPolled(pos)
  \/ UdpFallbackSetLoc
  \/ UdpFallbackSetSrc

LocProgress ==
  \/ LocReadTime
  \/ LocCheck
  \/ LocSetLoc
  \/ LocSetSrc

FairSpecGps ==
  /\ SpecGps
  /\ WF_vars(UdpProgress)
  /\ WF_vars(LocProgress)
  /\ WF_vars(Tick(Secs(GpsTickSeconds)))

(***************************************************************************)
(* The link accessor under concurrent callers: the telemetry poller and    *)
(* the handlers of POST /drone/start, /drone/stop and /drone/home          *)
(***************************************************************************)
NextConn ==
  \/ TelemetryPoll
  \/ TelDisconnected
  \/ GetDroneVehicle("telem")
  \/ StartDroneTracking
  \/ StopDroneTracking
  \/ DroneHome
  \/ GetDroneVehicle("cmd")
  \/ \E h \in Handles : LinkLost(h)
  \/ Tick(Secs(FollowTickSeconds))

SpecConn == Init /\ [][NextConn]_vars

(***************************************************************************)
(* The arm/takeoff sequences: the handler of POST /drone/takeoff, and the  *)
(* handlers of POST /drone/follow/start and /drone/follow/stop, each with  *)
(* the autopilot and the clock                                             *)
(***************************************************************************)
NextTakeoff ==
  \/ DroneTakeoff
  \/ GetDroneVehicle("cmd")
  \/ \E u \in FcUpdates : FcReport(u)
  \/ Tick(HalfSecond)

SpecTakeoff == Init /\ [][NextTakeoff]_vars

\* a handler that has started runs on, and time passes; what the autopilot
\* reports and which requests arrive is up to the environment
TakeoffProgress ==
  \/ TakeoffLinked
  \/ TakeoffTracking
  \/ SimpleTakeoffOnly
  \/ GetDroneVehicle("cmd")

FairSpecTakeoff ==
  /\ SpecTakeoff
  /\ WF_vars(TakeoffProgress)
  /\ WF_vars(Tick(HalfSecond))

NextStartFollow ==
  \/ StartDroneFollow
  \/ StopDroneFollow
  \/ GetDroneVehicle("cmd")
  \/ \E u \in FcUpdates : FcReport(u)
  \/ Tick(HalfSecond)

SpecStartFollow == Init /\ [][NextStartFollow]_vars

StartFollowProgress ==
  \/ StartFollowValidate
  \/ StartFollowStoreElevation
  \/ StartFollowStoreDistance
  \/ StartFollowLinked
  \/ StartFollowTracking
  \/ ArmAndTakeoff
  \/ StartFollowFollowMode
  \/ GetDroneVehicle("cmd")

FairSpecStartFollow ==
  /\ SpecStartFollow
  /\ WF_vars(StartFollowProgress)
  /\ WF_vars(Tick(HalfSecond))

(***************************************************************************)
(* Both arm/takeoff sequences: the handlers of POST /drone/takeoff and of  *)
(* POST /drone/follow/start, with the autopilot and the clock              *)
(***************************************************************************)
NextFlight ==
  \/ DroneTakeoff
  \/ StartDroneFollow
  \/ GetDroneVehicle("cmd")
  \/ \E u \in FcUpdates : FcReport(u)
  \/ Tick(HalfSecond)

SpecFlight == Init /\ [][NextFlight]_vars

(***************************************************************************)
(* Landing: the handlers of POST /drone/land and /drone/home after any     *)
(* history of /drone/follow/start and /drone/follow/stop requests          *)
(***************************************************************************)
NextLand ==
  \/ StartDroneFollow
  \/ StopDroneFollow
  \/ DroneLand
  \/ DroneHome
  \/ GetDroneVehicle("cmd")
  \/ \E u \in FcUpdates : FcReport(u)
  \/ Tick(HalfSecond)

SpecLand == Init /\ [][NextLand]_vars

(***************************************************************************)
(* The follow loop beside the command handlers: the operator has posted a  *)
(* location; start_drone_follow, drone_land and drone_home run while the   *)
(* follow loop cycles                                                      *)
(***************************************************************************)
InitLocated ==
  /\ current_location = ManualFix
  /\ location_source = "http"
  /\ InitRest
  /\ NoDecode
  /\ response = NoResponse

\* the reports of a vehicle that becomes armable, arms and climbs
ClimbUpdates == {<<"is_armable", TRUE>>, <<"armed", TRUE>>, <<"alt", 142>>, <<"alt", 475>>}

\* start_drone_follow beside the follow loop, with auto tracking left off as
\* it is at startup
NextFollowStart ==
  \/ StartDroneFollow
  \/ GetDroneVehicle("cmd")
  \/ FlTop
  \/ FlReadLocation
  \/ FlReadElevation
  \/ FlReadDistance
  \/ FlCheckLocation
  \/ FlLinked
  \/ FlGoto
  \/ FlUpdateGimbal
  \/ FlAuto
  \/ FlSleep
  \/ GdvCheck("follow")
  \/ GdvReturn("follow")
  \/ \E u \in ClimbUpdates : FcReport(u)
  \/ Tick(HalfSecond)

SpecFollowStart == InitLocated /\ [][NextFollowStart]_vars

\* and the handlers that land
NextFollowCmd ==
  \/ NextFollowStart
  \/ DroneLand
  \/ DroneHome

SpecFollowCmd == InitLocated /\ [][NextFollowCmd]_vars

(***************************************************************************)
(* The follow loop in flight: the state after a start_drone_follow that    *)
(* succeeded (elevation 5, distance 5), with or without an operator        *)
(* location; the follow loop, the telemetry poller, the handlers of        *)
(* /drone/follow/stop and /tracking/auto, the autopilot, the link          *)
(***************************************************************************)
InitFollow ==
  /\ current_location \in {Sentinel, ManualFix}
  /\ location_source = IF current_location = Sentinel THEN "none" ELSE "http"
  /\ phone_age = AgeCap
  /\ drone_vehicle = 1
  /\ vehicle = 1
  /\ links = [h \in Handles |-> IF h = 1 THEN "live" ELSE "unused"]
  /\ udp_pc = "recv"
  /\ udp_fix = Sentinel
  /\ udp_laptop = Sentinel
  /\ loc_pc = "idle"
  /\ loc_req = Sentinel
  /\ loc_phone_timeout = 0
  /\ cpc = [t \in Threads |-> "none"]
  /\ cvia = [t \in Threads |-> "gdv"]
  /\ cidx = [t \in Threads |-> 0]
  /\ cret = [t \in Threads |-> NoLink]
  /\ tracking_active = TRUE
  /\ follow_mode = TRUE
  /\ target_elevation = 5
  /\ target_distance = 5
  /\ drone_location = Sentinel
  /\ drone_metrics = [latitude |-> 0, longitude |-> 0,
                      altitude_relative |-> 0, connection_status |-> "none"]
  /\ auto_tracking_enabled = FALSE
  /\ gimbal_tilt_angle = 0
  /\ fc = [is_armable |-> TRUE, mode |-> "GUIDED", armed |-> TRUE, alt |-> 475]
  /\ issued = {"GUIDED", "ARM", "TAKEOFF"}
  /\ last_goto = NoGoto
  /\ gimbal_out = None
  /\ cmd = Idle("Flying")
  /\ fl = FlRest("top")
  /\ tel = TelRest("top")
  /\ sentence = <<>>
  /\ checksum_ok = FALSE
  /\ NoDecode
  /\ response = NoResponse

NextFollow ==
  \/ FollowCycle
  \/ GdvCheck("follow")
  \/ GdvReturn("follow")
  \/ TelemetryPoll
  \/ GdvCheck("telem")
  \/ GdvReturn("telem")
  \/ CvCheck("telem")
  \/ CvReturn("telem")
  \/ StopDroneFollow
  \/ EnableAutoTracking
  \/ DisableAutoTracking
  \/ \E u \in FlightUpdates : FcReport(u)
  \/ \E h \in Handles : LinkLost(h)
  \/ Tick(Secs(FollowTickSeconds))

SpecFollow == InitFollow /\ [][NextFollow]_vars

\* the scheduler runs the follow thread whenever it can take a step, and time passes
FollowProgress ==
  \/ FollowCycle
  \/ GdvCheck("follow")
  \/ GdvReturn("follow")

FairSpecFollow ==
  /\ SpecFollow
  /\ WF_vars(FollowProgress)
  /\ WF_vars(Tick(Secs(FollowTickSeconds)))

(***************************************************************************)
(* The checksum validator on the sentences that arrive                     *)
(***************************************************************************)
NextNmea == \E str \in Sentences : NmeaValidate(str)

SpecNmea == Init /\ [][NextNmea]_vars

(***************************************************************************)
(* The coordinate decoder on every field up to the bound                   *)
(***************************************************************************)
InitDecode ==
  /\ InitApp
  /\ coord_str \in CoordStrings
  /\ direction \in Directions
  /\ decoded = FALSE
  /\ decimal = None
  /\ geo = GeoCall(Sentinel, Sentinel)
  /\ response = NoResponse

NextDecode == NmeaDecode

SpecDecode == InitDecode /\ [][NextDecode]_vars

(***************************************************************************)
(* The distance and the bearing between every two points of GeoPoints      *)
(***************************************************************************)
InitGeo ==
  /\ InitApp
  /\ coord_str = <<>>
  /\ direction = "N"
  /\ decoded = FALSE
  /\ decimal = None
  /\ geo \in {GeoCall(p1, p2) : p1 \in GeoPoints, p2 \in GeoPoints}
  /\ response = NoResponse

NextGeo == GeoCompute

SpecGeo == InitGeo /\ [][NextGeo]_vars

(***************************************************************************)
(* Properties of the arbiter                                               *)
(***************************************************************************)
\* the current fix is a phone fix younger than 30 s
PhoneLive == location_source = "phone" /\ phone_age < Secs(PhoneStaleSeconds)
\* the current fix is a phone fix older than 30 s
PhoneStale == location_source = "phone" /\ phone_age > Secs(PhoneStaleSeconds)

\* the steps that write the arbiter's fields
ManualWrite == (loc_pc = "set_loc" /\ loc_pc' = "set_src") \/ (loc_pc = "set_src" /\ loc_pc' = "idle")
LaptopWrite == (udp_pc = "fb_set_loc" /\ udp_pc' = "fb_set_src") \/ (udp_pc = "fb_set_src" /\ udp_pc' = "recv")
PhoneAccepted == udp_pc = "set_time" /\ udp_pc' = "recv"

\* C1: a manual update (POST /location) never writes current_location or
\* location_source while the source is 'phone' and the phone fix is younger
\* than 30 s, whatever the interleaving with the listener thread
C1_ManualNeverOverridesLivePhone == [][ManualWrite => ~PhoneLive]_vars

\* C2 as stated: a laptop update never overwrites a phone fix younger than
\* 30 s, and once the phone fix is older than 30 s the source eventually
\* becomes 'laptop' (unless the phone stream resumes)
C2_StalePhoneBecomesLaptop ==
  /\ [][LaptopWrite => ~PhoneLive]_vars
  /\ (PhoneStale ~> (location_source = "laptop" \/ phone_age = 0))

\* C2 as amended: a laptop update never overwrites a phone fix younger than
\* 30 s; a local GPS poll, made on a receive timeout when the phone fix is older
\* than 30 s, that returns a location other than (0,0) is written as the
\* current location with source 'laptop', and a poll that returns (0,0)
\* leaves the arbiter's fields as they are
C2_LaptopFallback ==
  [][ /\ LaptopWrite => ~PhoneLive
      /\ (udp_pc = "fb_age" /\ udp_pc' = "fb_poll") => phone_age > Secs(PhoneStaleSeconds)
      /\ (udp_pc = "fb_poll" /\ udp_pc' = "fb_set_loc") => (udp_laptop' # Sentinel /\ UNCHANGED gpsVars)
      /\ (udp_pc = "fb_poll" /\ udp_pc' = "recv") => UNCHANGED gpsVars
      /\ (udp_pc = "fb_set_loc" /\ udp_pc' = "fb_set_src") => current_location' = udp_laptop
      /\ (udp_pc = "fb_set_src" /\ udp_pc' = "recv") => location_source' = "laptop"
    ]_vars

\* the fallback has happened: the laptop fix is the current one
C2_Witness == location_source = "laptop" /\ current_location = LaptopFix /\ udp_pc = "recv"

\* C3: when the listener has accepted a valid phone fix (its three writes are
\* done), current_location is that fix, location_source is 'phone' and
\* last_phone_update is the acceptance time
C3_PhoneFixBecomesCurrent ==
  [][PhoneAccepted => (current_location' = udp_fix /\ location_source' = "phone" /\ phone_age' = 0)]_vars

\* C14: the arbiter's current location, when it is not the (0,0) sentinel,
\* has its latitude in [-90, 90] and its longitude in [-180, 180] degrees
\* (coordinates are in units of 1/111000 degree)
C14_LocationInRange ==
  current_location # Sentinel =>
    /\ current_location[1] >= 0 - 90 * 111000
    /\ current_location[1] <= 90 * 111000
    /\ current_location[2] >= 0 - 180 * 111000
    /\ current_location[2] <= 180 * 111000

\* the handler of POST /location decides to store the manual fix
ManualAccepted == loc_pc = "check" /\ loc_pc' = "set_loc"

\* C17: a manual update is not accepted over a fix of higher priority: the
\* handler decides to store it only when the source it finds is not the
\* laptop, and not the phone unless the phone fix is older than 30 s
C17_ManualKeepsHigherPriorityFix ==
  [][ManualAccepted =>
       /\ location_source # "laptop"
       /\ location_source = "phone" => loc_phone_timeout >= Secs(PhoneStaleSeconds)]_vars

\* the conditions under which a datagram may change the arbiter's fields
CarriesFix(d) ==
  /\ d.dollar
  /\ d.sum_ok
  /\ (d.type = "GGA" /\ d.quality # 0) \/ (d.type = "RMC" /\ d.status = "A")
  /\ ~d.lat_empty /\ d.lat # None
  /\ ~d.lon_empty /\ d.lon # None

\* the listener goes on to store a phone fix
PhoneFixTaken == udp_pc = "recv" /\ udp_pc' = "set_loc"
\* C26: the listener takes a phone fix only from a datagram that starts with
\* '$', passes the checksum, is a GGA with quality not 0 or an RMC with status
\* 'A', and has two non-empty coordinates that decode, and the fix is what
\* they decode to; receiving any other datagram changes nothing and leaves
\* the listener receiving; the location the listener then stores is the fix
\* it took
C26_OnlyValidDatagramsChangeArbiter ==
  /\ [][\A d \in Datagrams : UdpRecv(d) =>
          IF CarriesFix(d)
            THEN PhoneFixTaken /\ udp_fix' = <<d.lat, d.lon>> /\ UNCHANGED gpsVars
            ELSE UNCHANGED vars]_vars
  /\ [][PhoneFixTaken => \E d \in Datagrams : CarriesFix(d) /\ udp_fix' = <<d.lat, d.lon>>]_vars
  /\ [][(udp_pc = "set_loc" /\ udp_pc' # udp_pc) => current_location' = udp_fix]_vars

\* the listener has taken the fix of a valid RMC sentence and stored its coordinates
C26_Witness ==
  /\ udp_pc = "set_src"
  /\ udp_fix = PhoneFixB
  /\ current_location = PhoneFixB

\* the listener enters, leaves or moves on within the handling of a receive
\* timeout
TimeoutTested == udp_pc = "recv" /\ udp_pc' = "fb_age"
AgeTested == udp_pc = "fb_age" /\ udp_pc' # udp_pc
PollTested == udp_pc = "fb_poll" /\ udp_pc' # udp_pc

\* C33: a receive timeout changes the arbiter's fields only when the source
\* is 'phone', the phone fix is older than 30 s and the local poll returns a
\* location other than (0,0): with another source the timeout leaves the
\* listener receiving, with a fix of 30 s or younger or a poll that gives
\* (0,0) the handling ends, the tests leave the three fields unchanged, and
\* the laptop location is written only after the three tests; so once the
\* source is 'laptop' no timeout refreshes the location
C33_TimeoutFallbackFrame ==
  /\ [][TimeoutTested => (location_source = "phone" /\ UNCHANGED gpsVars)]_vars
  /\ [][AgeTested =>
          /\ UNCHANGED gpsVars
          /\ udp_pc' = (IF phone_age > Secs(30) THEN "fb_poll" ELSE "recv")]_vars
  /\ [][PollTested =>
          /\ UNCHANGED gpsVars
          /\ udp_pc' \in {"recv", "fb_set_loc"}
          /\ udp_pc' = "fb_set_loc" => (cret["udp"] # NoLink /\ udp_laptop' # Sentinel)
          /\ cret["udp"] = NoLink => udp_pc' = "recv"]_vars
  /\ [][(udp_pc' = "fb_set_loc" /\ udp_pc # "fb_set_loc") => PollTested]_vars
  /\ [][(udp_pc' = "fb_poll" /\ udp_pc # "fb_poll") => AgeTested]_vars
  /\ [][(udp_pc' = "fb_age" /\ udp_pc # "fb_age") => TimeoutTested]_vars
  /\ [][(udp_pc = "recv" /\ location_source # "phone") => udp_pc' \in {"recv", "set_loc"}]_vars

\* after a fallback to the laptop location the listener is receiving again,
\* the phone silent for over a minute and no request in progress
C33_Witness ==
  /\ location_source = "laptop"
  /\ current_location = LaptopFix
  /\ udp_pc = "recv"
  /\ loc_pc = "idle"
  /\ phone_age > Secs(60)

\* the fixes the listener can take from the phone
PhoneFixes == { <<d.lat, d.lon>> : d \in {e \in Datagrams : CarriesFix(e)} }

\* C31: under every interleaving of the listener with the POST /location
\* handler the arbiter's fields agree: whenever the source is 'phone', the
\* current location is a fix the listener took from the phone
C31_PhoneSourceHasPhoneFix ==
  location_source = "phone" => current_location \in PhoneFixes

\* C15: once the arbiter has accepted a fix (its source is no longer 'none'),
\* the follow loop's test of the location it reads finds a location, and
\* status reports that the user has one, whatever the coordinates of the fix
C15_AcceptedFixIsALocation ==
  (location_source # "none" /\ udp_pc = "recv" /\ loc_pc = "idle")
    => (HasLocation(current_location) /\ user_has_location)

\* the sentence has one '*', and the XOR of its content, as two upper-case
\* hex digits, is its checksum field
ChecksumMatches ==
  /\ Cardinality(Stars(sentence)) = 1
  /\ LET p == CHOOSE i \in Stars(sentence) : TRUE
     IN Format02X(XorAll(SubSeq(sentence, 2, p - 1))) = SubSeq(sentence, p + 1, Len(sentence))

\* C13: the validator accepts a sentence exactly when the XOR of its content,
\* as two upper-case hex digits, equals its checksum field, and it rejects
\* every variant of an accepted sentence in which one bit of one character
\* of the content or of the checksum field is flipped
C13_ChecksumExact ==
  /\ checksum_ok <=> ChecksumMatches
  /\ checksum_ok => \A v \in SingleBitFlips(sentence) : ~validate_nmea_checksum(v)

(***************************************************************************)
(* Properties of the link accessor                                         *)
(***************************************************************************)
\* C4: at most one link to the vehicle is live at any time, whatever the
\* interleaving of the callers of get_drone_vehicle() and connect_vehicle()
C4_AtMostOneLiveLink == Cardinality(LiveLinks) <= 1

\* a step of the telemetry poller, in its loop or in the link accessor
TelStep == tel'.pc # tel.pc \/ cpc'["telem"] # cpc["telem"] \/ cidx'["telem"] # cidx["telem"]

\* the poller is at the link: in get_drone_vehicle or get_current_location, or
\* reading the attributes
TelSampling == tel.pc \in {"link", "locate", "located", "metrics"}

\* C12: no step of the telemetry poller issues set-mode, arm, takeoff, land
\* or a goto, and the poller goes to the link only from the top of a cycle
\* in which tracking_active is set; a cycle that finds it cleared goes to
\* its sleep without a call of the link accessor
C12_TelemetryReadOnly ==
  [][ /\ TelStep => UNCHANGED <<issued, last_goto>>
      /\ (~TelSampling /\ TelSampling') => (tel.pc = "top" /\ tracking_active)
      /\ (tel.pc = "top" /\ tel'.pc # "top" /\ ~tracking_active)
           => (tel'.pc = "sleep2" /\ UNCHANGED <<callVars, linkVars, droneVars>>)
    ]_vars

\* a poll has sampled a live link after another task commanded LAND: the
\* land command is the only one issued
C12_Witness ==
  /\ tel.pc = "sleep2"
  /\ drone_metrics.connection_status = "Connected"
  /\ issued = {"LAND"}

\* C16: when orient_drone_towards_user computes the tilt and the goto target,
\* the drone_metrics snapshot it reads was written by the poll that wrote the
\* drone_location it read: the snapshot's own coordinates are that location
C16_LocationAndMetricsFromOnePoll ==
  [][(fl.pc = "orient_act" /\ fl'.pc # "orient_act")
       => <<drone_metrics.latitude, drone_metrics.longitude>> = fl.o_drone]_vars

\* the poller publishes the error snapshot
\* connect_vehicle returns to thread t
ConnectReturns(t) == cpc[t] = "cv_return" /\ cpc'[t] # "cv_return"

\* no thread but t is inside get_drone_vehicle or connect_vehicle
CallsAlone(t) == \A u \in Threads \ {t} : cpc[u] = "none"

\* C32: connect_vehicle returns no link or a link that is open: a handle
\* that was opened, got no heartbeat and was closed is never returned as
\* the existing connection by a later call, also when no other call is in
\* progress
C32_ConnectNeverReturnsClosed ==
  [][\A t \in Threads :
       (ConnectReturns(t) /\ CallsAlone(t))
         => (cret'[t] = NoLink \/ links[cret'[t]] # "closed")]_vars

ErrorPublished == drone_metrics' # drone_metrics /\ drone_metrics'.connection_status = "Error"

\* C25: the snapshot published when a poll raises keeps the field values of
\* the snapshot published before it; only its connection status becomes Error
C25_ErrorKeepsSnapshot ==
  [][ErrorPublished => drone_metrics' = [drone_metrics EXCEPT !.connection_status = "Error"]]_vars

(***************************************************************************)
(* Properties of the landing handlers                                      *)
(***************************************************************************)
\* drone_land or drone_home is running
Landing == cmd.pc \in {"land_link", "land_land", "home_link", "home_land"}

StoWaits == {"sto_armable", "sto_mode", "sto_armed", "sto_climb"} \cup StoSleeps
AatWaits == {"aat_armable", "aat_armed", "aat_climb"} \cup AatSleeps

\* the is_armable poll of simple_takeoff_only reads false
ArmablePollFails == cmd.pc = "sto_armable" /\ cmd'.pc # "sto_armable" /\ ~fc.is_armable

\* no mode, arm or takeoff command has gone out in the wait for is_armable,
\* nor in a sequence that ended in NotArmable
NoCommandBeforeArmable ==
  (cmd.pc \in {"sto_armable", "sto_armable_sleep"} \/ cmd.result = "NotArmable") => issued = {}

\* C5 as stated: with a link that never reports armable the takeoff sequence
\* fails with NotArmable, no later than 30 s after the wait began, and commands
\* neither GUIDED nor arm nor takeoff
C5_NotArmableWithinBound ==
  /\ [][(ArmablePollFails /\ cmd'.result = "NotArmable") => cmd.elapsed <= Secs(30)]_vars
  /\ []NoCommandBeforeArmable
  /\ ([]~fc.is_armable) => ((cmd.pc = "sto_armable") ~> (cmd.result = "NotArmable"))

\* C5 as amended: with a link that never reports armable the takeoff sequence
\* fails with NotArmable at the first is_armable poll made more than 30 s
\* after the wait began, and at no earlier poll, and commands neither GUIDED
\* nor arm nor takeoff
C5_NotArmableAfterBound ==
  /\ [][ArmablePollFails => (cmd'.result = "NotArmable" <=> cmd.elapsed > Secs(30))]_vars
  /\ []NoCommandBeforeArmable
  /\ ([]~fc.is_armable) => ((cmd.pc = "sto_armable") ~> (cmd.result = "NotArmable"))

\* the takeoff has failed on a vehicle that is not armable, and nothing was commanded
C5_Witness == cmd.result = "NotArmable" /\ ~fc.is_armable /\ issued = {}

\* C6: every arm/takeoff sequence a command handler has started ends, in
\* Flying or in a failure, whatever the link reports: no wait of
\* simple_takeoff_only or of arm_and_takeoff is occupied for ever
C6_TakeoffSequenceTerminates == (cmd.pc \in StoWaits \cup AatWaits) ~> (cmd.pc = "idle")

\* the sequence is about to command GUIDED, arm=true, takeoff
AtGuided == cmd.pc \in {"sto_guided", "aat_guided"}
AtArm == cmd.pc \in {"sto_arm", "aat_arm"}
AtTakeoff == cmd.pc \in {"sto_takeoff", "aat_takeoff"}

\* the sequence reads back is_armable, mode GUIDED, armed
ArmableReadBack == cmd.pc \in {"sto_armable", "aat_armable"} /\ fc.is_armable
ModeReadBack == cmd.pc = "sto_mode" /\ fc.mode = "GUIDED"
ArmedReadBack == cmd.pc \in {"sto_armed", "aat_armed"} /\ fc.armed

\* C19: in simple_takeoff_only and in arm_and_takeoff, the sequence comes to
\* command GUIDED only from a poll that read is_armable true, to command
\* arm=true only from a poll that read mode GUIDED (or from the settle sleep
\* that such a poll starts), and to command takeoff only from a poll that
\* read armed true
C19_CommandsOrderedByReadBacks ==
  [][ /\ (~AtGuided /\ AtGuided') => ArmableReadBack
      /\ (cmd.pc # "sto_settle" /\ cmd'.pc = "sto_settle") => ModeReadBack
      /\ (~AtArm /\ AtArm') => (ModeReadBack \/ cmd.pc = "sto_settle")
      /\ (~AtTakeoff /\ AtTakeoff') => ArmedReadBack
    ]_vars

\* what simple_takeoff_only fails with
Failures == {"NotArmable", "ModeTimeout", "ArmTimeout", "TakeoffTimeout", "Disarmed"}

\* simple_takeoff_only is running
InSto == cmd.pc \in StoWaits \cup {"sto_guided", "sto_arm", "sto_takeoff"}

\* the command a position of simple_takeoff_only issues
StoCommand(pc) ==
  CASE pc = "sto_guided"  -> {"GUIDED"}
    [] pc = "sto_arm"     -> {"ARM"}
    [] pc = "sto_takeoff" -> {"TAKEOFF"}
    [] OTHER             -> {}

\* C20: within one takeoff attempt a step of simple_takeoff_only issues a
\* command only at its set-mode, arm or takeoff statement, and only one not
\* yet issued in the attempt; a failure (armable, mode, arm or takeoff
\* timeout, or disarm) returns to the handler without a command, and after
\* it no command goes out and only a new request starts a sequence
C20_NoAutomaticRetries ==
  /\ [][(InSto /\ cmd'.pc # cmd.pc)
          => /\ issued' = issued \cup StoCommand(cmd.pc)
             /\ StoCommand(cmd.pc) \cap issued = {}]_vars
  /\ [][(InSto /\ cmd'.result \in Failures) => (cmd'.pc = "idle" /\ UNCHANGED issued)]_vars
  /\ [][(cmd.pc = "idle" /\ cmd.result \in Failures)
          => (UNCHANGED issued /\ cmd'.pc \in {"idle", "tk_link"})]_vars

\* the attempt failed in the wait for armed, after one GUIDED and one arm command
C20_Witness ==
  /\ cmd.pc = "idle"
  /\ cmd.result = "ArmTimeout"
  /\ issued = {"GUIDED", "ARM"}

\* a poll of the climb loop of simple_takeoff_only or of arm_and_takeoff
ClimbPoll == cmd.pc \in {"sto_climb", "aat_climb"} /\ cmd'.pc # cmd.pc

\* the attempt is reported as a success: simple_takeoff_only returns True,
\* arm_and_takeoff returns and start_drone_follow goes on to follow mode
ReportsFlying == cmd.result = "Flying" \/ cmd.pc = "sf_follow_mode"

\* C21: a poll of the climb made while the link reports armed = false does
\* not report Flying, whatever the altitude read at that poll: the attempt
\* is not a success
C21_DisarmedNeverFlying ==
  [][(ClimbPoll /\ ~fc.armed) => ~ReportsFlying']_vars

\* the target altitude of the climb in progress, in centimetres
ClimbTarget == IF cmd.pc = "sto_climb" THEN takeoff_altitude ELSE 100 * cmd.elevation

\* the altitude read at this poll is at least 95 % of the target; a missing
\* altitude counts as 0
AltitudeReached == PyOr0(fc.alt) * 100 >= ClimbTarget * 95

\* the poll is made after the takeoff timeout of simple_takeoff_only
ClimbTimedOut == cmd.pc = "sto_climb" /\ cmd.elapsed > Secs(takeoff_timeout)

\* C22 as stated: Flying is reported only at a poll of the climb that reads
\* an altitude of at least 95 % of the target, and every such poll made
\* before the takeoff timeout reports Flying
C22_FlyingAtFirstPollAt95 ==
  /\ [][(~ReportsFlying /\ ReportsFlying') => (ClimbPoll /\ AltitudeReached)]_vars
  /\ [][(ClimbPoll /\ AltitudeReached /\ ~ClimbTimedOut) => ReportsFlying']_vars

\* C22 as amended: Flying is reported only at a poll of the climb that reads
\* an altitude of at least 95 % of the target, and every such poll made
\* before the takeoff timeout reports Flying, unless it is a poll of
\* simple_takeoff_only that finds the vehicle disarmed
C22_FlyingAtFirstArmedPollAt95 ==
  /\ [][(~ReportsFlying /\ ReportsFlying') => (ClimbPoll /\ AltitudeReached)]_vars
  /\ [][(ClimbPoll /\ AltitudeReached /\ ~ClimbTimedOut /\ (cmd.pc = "sto_climb" => fc.armed))
          => ReportsFlying']_vars

\* simple_takeoff_only has returned True after reading 4.75 m for a target of 1.5 m
C22_Witness ==
  /\ cmd.pc = "idle"
  /\ cmd.result = "Flying"
  /\ tracking_active
  /\ ~follow_mode
  /\ fc.alt = 475

\* a start_follow request whose elevation or distance is out of range
OutOfRange ==
  \/ cmd.elevation < 5
  \/ cmd.elevation > 100
  \/ cmd.distance < 5
  \/ cmd.distance > 50

\* C7: start_follow with an elevation outside [5,100] or a distance outside
\* [5,50] is rejected, and neither reading the request nor rejecting it
\* changes target_elevation, target_distance, tracking_active, follow_mode or
\* the vehicle handle, calls the link accessor or issues a command
C7_RejectedBeforeAnyMutation ==
  [][ /\ (cmd.pc = "sf_validate" /\ cmd'.pc # "sf_validate" /\ OutOfRange)
           => (cmd' = Idle("Rejected") /\ UNCHANGED <<cfgVars, linkVars, callVars, issued>>)
      /\ (cmd.pc = "idle" /\ cmd'.pc = "sf_validate")
           => UNCHANGED <<cfgVars, linkVars, callVars, issued>>
    ]_vars

\* a request has been rejected; the targets are the initial ones
C7_Witness ==
  /\ cmd.result = "Rejected"
  /\ target_elevation = 20
  /\ target_distance = 10
  /\ ~follow_mode
  /\ drone_vehicle = NoLink

(***************************************************************************)
(* Properties of the follow loop                                           *)
(***************************************************************************)
\* the follow loop calls simple_goto
FollowGoto == fl.pc = "goto" /\ fl'.pc = "gimbal"
\* orient_drone_towards_user has passed its checks and acts
OrientStep == fl.pc = "orient_act" /\ fl'.pc # "orient_act"

\* start_drone_follow returns, and the errors it can return
StartFollowReturns ==
  /\ cmd.pc \in {"sf_validate", "sf_store_elevation", "sf_store_distance", "sf_link",
                 "sf_tracking", "sf_follow_mode"} \cup AatWaits \cup {"aat_guided", "aat_arm", "aat_takeoff"}
  /\ cmd'.pc = "idle"
StartFollowErrors == {"Rejected", "NoLink", "Error"}

\* C37: when start_follow returns an error (a parameter out of range, no
\* Vehicle Link, an exception in the takeoff), target_elevation,
\* target_distance, tracking_active and follow_mode are as they were when
\* the call began
C37_FailedStartFollowChangesNothing ==
  [][(StartFollowReturns /\ cmd'.result \in StartFollowErrors) => FollowConfig' = cmd.before]_vars

\* C8: the follow loop issues no goto in a cycle in which the operator
\* location it read is (0,0), and no goto to a target derived from (0,0);
\* orient_drone_towards_user does not act on an operator location of (0,0)
C8_NoGotoWithoutLocation ==
  [][ /\ FollowGoto => /\ fl.user_location # Sentinel
                       /\ last_goto' # <<0 - fl.distance, 0, fl.elevation>>
      /\ OrientStep => fl.o_user # Sentinel
    ]_vars

\* a cycle has read the sentinel and goes to sleep without a goto
C8_Witness == fl.pc = "no_location" /\ fl.user_location = Sentinel /\ follow_mode /\ last_goto = NoGoto

\* a step of the follow thread that sends a goto to the link
GotoIssued == FollowGoto \/ (OrientStep /\ last_goto' # last_goto)

\* C35: follow_mode becomes true only in the last step of a start_follow
\* call, which the call reaches only from a poll of arm_and_takeoff that read
\* at least 95 % of the requested elevation; the follow loop issues no goto
\* before that, so none while the first takeoff is in progress; and a call
\* that returns an error leaves follow_mode as it found it
C35_FollowModeOnlyAfterTakeoff ==
  /\ [][(~follow_mode /\ follow_mode')
          => (cmd.pc = "sf_follow_mode" /\ cmd'.pc = "idle" /\ cmd'.result = "Flying")]_vars
  /\ [][(cmd.pc # "sf_follow_mode" /\ cmd'.pc = "sf_follow_mode")
          => (cmd.pc = "aat_climb" /\ fc.alt # None /\ 100 * fc.alt >= 95 * 100 * cmd.elevation)]_vars
  /\ [][GotoIssued => follow_mode]_vars
  /\ [][(StartFollowReturns /\ cmd'.result \in StartFollowErrors)
          => (follow_mode' = follow_mode /\ follow_mode = cmd.before[4])]_vars

\* start_follow has returned after the climb and the follow loop has sent a goto
C35_Witness ==
  /\ follow_mode
  /\ cmd.pc = "idle"
  /\ cmd.result = "Flying"
  /\ fc.alt = 475
  /\ last_goto # NoGoto
  /\ last_goto[3] = target_elevation

\* C36: once drone_land or drone_home has commanded mode LAND, the follow
\* loop sends no goto, also in a cycle that read follow_mode as true before
\* the handler cleared it
C36_NoGotoAfterLand ==
  [][("LAND" \in issued) => ~GotoIssued]_vars

\* C23: every goto the follow thread sends targets the operator latitude read
\* in this cycle less target_distance metres, the operator longitude read in
\* this cycle, and the target_elevation read in this cycle
C23_GotoTargetsStandOff ==
  [][GotoIssued =>
       last_goto' = <<fl.user_location[1] - fl.distance, fl.user_location[2], fl.elevation>>]_vars

\* the follow cycle takes what get_drone_vehicle returned
FollowTakesLink == fl.pc = "link" /\ fl'.pc # "link"

\* get_drone_vehicle, called by the follow cycle, finds a stored handle and
\* goes on to return it
FollowGivenStoredLink == cpc["follow"] = "gdv_check" /\ cpc'["follow"] = "gdv_return"

\* C24: a follow cycle is given a link by get_drone_vehicle only when one is
\* connected at the accessor's test, and a cycle that is given none skips to
\* its sleep: it issues no goto and no gimbal command and raises nothing
C24_NoLinkSkipsCycle ==
  /\ [][FollowGivenStoredLink => IsLive(drone_vehicle)]_vars
  /\ [][(FollowTakesLink /\ cret["follow"] = NoLink)
          => (fl'.pc = "sleep3" /\ UNCHANGED <<last_goto, gimbal_out, gimbal_tilt_angle>>)]_vars

\* C34: the gimbal tilt angle in the shared state, which status reports, is
\* the angle last sent to the gimbal output, whoever sent it
C34_TiltAngleIsLastOutput ==
  gimbal_out # None => gimbal_tilt_angle = gimbal_out

\* C9: every angle given to set_gimbal_angle in a follow cycle lies in [-90, +30]
C9_GimbalAngleClamped == gimbal_out # None => (gimbal_out >= 0 - 90 /\ gimbal_out <= 30)

\* C10: the follow loop does not end: after an exception raised in a cycle,
\* as after every cycle, it starts another one
C10_FollowLoopNeverEnds == []<>(fl.pc = "top")

\* a goto has raised in a cycle, with follow_mode on: the loop is in the
\* sleep of its exception handler
C10_Witness == fl.pc = "sleep5" /\ follow_mode

\* the loop is in a cycle that has passed its test of follow_mode
InCycle == fl.pc \notin {"top", "sleep3", "sleep5"}

\* a goto or a gimbal command goes out
FollowCommand ==
  \/ FollowGoto
  \/ OrientStep
  \/ (fl.pc = "gimbal" /\ fl'.pc # "gimbal")
  \/ last_goto' # last_goto
  \/ gimbal_out' # gimbal_out
  \/ gimbal_tilt_angle' # gimbal_tilt_angle

\* C11: the follow loop tests follow_mode at the top of each cycle: a cycle is
\* entered only from the top with follow_mode set, a goto or a gimbal command
\* goes out only in a cycle so entered, and once follow_mode is cleared the
\* cycle in progress ends, after which no cycle is entered
C11_StopObservedAtTop ==
  /\ [][(~InCycle /\ InCycle') => (fl.pc = "top" /\ follow_mode)]_vars
  /\ [][FollowCommand => InCycle]_vars
  /\ (~follow_mode) ~> (~follow_mode /\ ~InCycle)

\* follow_mode has been cleared after a goto went out, and the loop has
\* skipped a cycle
C11_Witness == ~follow_mode /\ fl.pc = "sleep3" /\ fl.slept > 0 /\ last_goto # NoGoto

(***************************************************************************)
(* Properties of the coordinate decoder                                    *)
(***************************************************************************)
\* what the digit at place i of a field whose decimal point is at place q
\* (both counted from 1) contributes: the places up to q - 3 write the
\* degrees, the places from q - 2 on write the minutes
PlaceValue(str, q, i) ==
  IF i < q - 2 THEN (str[i] - 48) * (10 ^ (q - 3 - i)) * 600000
  ELSE IF i < q THEN (str[i] - 48) * (10 ^ (q - 1 - i)) * 10000
  ELSE IF i = q THEN 0
  ELSE ((str[i] - 48) * 10000) \div (10 ^ (i - q))

RECURSIVE PlaceSum(_, _, _)
PlaceSum(str, q, n) ==
  IF n = 0 THEN 0 ELSE PlaceSum(str, q, n - 1) + PlaceValue(str, q, n)

\* the places of the decimal points of a field
DotPlaces(str) == {i \in 1..Len(str) : str[i] = Dot}

\* a field the decoder gives a value: one decimal point, at least two
\* places of minutes and one of degrees before it, and digits elsewhere
Decodable(str) ==
  /\ Len(str) >= 4
  /\ Cardinality(DotPlaces(str)) = 1
  /\ \A q \in DotPlaces(str) :
       /\ q >= 4
       /\ \A i \in 1..Len(str) : i # q => IsDigit(str[i])

DegreesPlusMinutes(str) ==
  LET q == CHOOSE i \in DotPlaces(str) : TRUE IN PlaceSum(str, q, Len(str))

\* C27: decoding a field with its decimal point at index p returns the
\* degrees written by the characters [0, p-2) plus the minutes written by
\* the characters [p-2, end) over 60, negated exactly for 'S' and 'W', and no
\* value for a field that is empty, has no decimal point, is shorter than 4
\* characters or has a non-numeric degree or minute part
C27_DecodeDegreesAndMinutes ==
  decoded =>
    /\ Decodable(coord_str) =>
         decimal = IF direction \in {"S", "W"} THEN 0 - DegreesPlusMinutes(coord_str)
                   ELSE DegreesPlusMinutes(coord_str)
    /\ ~Decodable(coord_str) => decimal = None
    /\ decimal # None =>
         /\ nmea_to_decimal(coord_str, "S") = 0 - nmea_to_decimal(coord_str, "N")
         /\ nmea_to_decimal(coord_str, "W") = 0 - nmea_to_decimal(coord_str, "E")
         /\ nmea_to_decimal(coord_str, "N") = nmea_to_decimal(coord_str, "E")

\* "1011.1" W is decoded to -(10 degrees 11.1 minutes)
C27_Witness ==
  /\ decoded
  /\ coord_str = <<49, 48, 49, 49, 46, 49>>
  /\ direction = "W"
  /\ decimal = 0 - (10 * 600000 + 111000)

(***************************************************************************)
(* Properties of the status reads                                          *)
(***************************************************************************)
\* the class of a location by its source and the age of the phone fix
LocationHealth(source, age) ==
  CASE source = "phone" /\ age < Secs(10) -> {"live"}
    [] source = "phone" /\ age >= Secs(10) /\ age < Secs(30) -> {"recent"}
    [] source = "phone" /\ age >= Secs(30) -> {"stale"}
    [] source = "http" -> {"manual"}
    [] source = "none" -> {"none"}
    [] OTHER -> {"fallback"}

\* C28: every read of GET /status and of GET /location classifies the
\* location as live for a phone fix younger than 10 s, recent from 10 s to
\* under 30 s, stale from 30 s, manual for an HTTP fix and none without a
\* source, both reads with the same thresholds
C28_ReadsClassifyByAge ==
  [][(GetStatus \/ GetLocation) =>
       response'.health \in LocationHealth(location_source, phone_age)]_vars

\* the control fields and the Vehicle Link
controlVars ==
  <<gpsVars, udpVars, locVars, linkVars, callVars, cfgVars, droneVars, fc, outVars, cmd, fl, tel>>

\* C29: a status read changes no control field, neither calls nor connects
\* the Vehicle Link, and answers 200 with the location and the source as
\* they are stored, however old the fix is and also when no source has
\* reported
C29_StatusReadsObserve ==
  [][StatusRead =>
       /\ UNCHANGED controlVars
       /\ response'.code = 200
       /\ response'.route \in {"/status", "/location"} =>
            (response'.location = current_location /\ response'.source = location_source)
       /\ response'.route \in {"/status", "/drone/metrics"} =>
            response'.connection_status \in
              {drone_metrics.connection_status, "Not Connected"} \ {"none"}]_vars

\* GET /status has answered with a phone fix that is over a minute old
C29_Witness ==
  /\ response.route = "/status"
  /\ response.code = 200
  /\ response.health = "stale"
  /\ response.location = PhoneFixA
  /\ location_source = "phone"
  /\ udp_pc = "recv"
  /\ phone_age > Secs(60)

====
